---- MODULE Spec2Model ----
(***************************************************************************)
(* Deployment reconciliation of the temporal worker: the WorkflowWatcher   *)
(* (services/watcher.ts), the WorkerManager (workers/manager.ts), the      *)
(* reconciler handleWorkflowChanges and main() (index.ts), the triggers    *)
(* (triggers/*.trigger.ts) and the TriggerManager (triggers/index.ts).     *)
(*                                                                         *)
(* Every action is one run of the code between two suspension points       *)
(* (await, timer tick): JavaScript runs such a stretch without             *)
(* interleaving, so the interleavings of the model are those of the code.  *)
(***************************************************************************)
EXTENDS Naturals, Integers, Sequences, FiniteSets, TLC

VARIABLES
    remote,          \* artifact store: per name "absent", "nolatest" or its latest version
    tracked,         \* WorkflowWatcher.trackedWorkflows: per name "none" or the tracked version
    intervalHandle,  \* WorkflowWatcher.intervalHandle is set (the interval timer is armed)
    startPc,         \* position of WorkflowWatcher.start(): "idle", "initial", "started"
    stopCalled,      \* history: WorkflowWatcher.stop() has been called
    timerAfterStop,  \* history: the timer has called sync() after stop() was called
    sync,            \* the sync() invocations, one record per invocation slot
    workers,         \* WorkerManager.workers: the keys in insertion order, the group of each key
    wk,              \* the execution workers made by Worker.create, by worker id
    connection,      \* WorkerManager.connection is set
    sa,              \* the startAll() invocation
    rs,              \* the restartWorker() invocation
    st,              \* the stopAll() invocation
    indexFile,       \* the names exported by the generated workflows/index.ts
    triggers,        \* TriggerManager.triggers: the names that have a trigger
    hc,              \* the handleWorkflowChanges() invocation
    tr,              \* the triggers: per trigger its isRunning flag and its start()/stop() call
    routes,          \* sharedRouter: the owners of the handlers, in the order they were added
    registeredTriggers, \* the reference count of the webhook server
    server,          \* serverInstance: "none", "binding", "up", "closing"
    timers,          \* per polling trigger: its interval timer is armed
    sched,           \* the schedule of the schedule trigger exists in the engine
    auth,            \* per webhook trigger: the auth scheme of its config, or "none"
    req,             \* the webhook request in flight
    cfg,             \* the parsed configs: the polling endpoint and the schedule fields are set
    schedSpec,       \* the spec of the schedule in the engine, "none" when there is none
    poll,            \* per polling trigger: the poll() invocation
    mx,              \* the execute() or executeAndWait() invocation of the manual trigger
    starts,          \* history: per trigger, the start() calls that passed the isRunning test
    made,            \* TriggerManager.triggers: the entries in insertion order
    tm,              \* the TriggerManager.startAll() or stopAll() invocation
    reg,             \* the last TriggerManager.register() call and what it returned
    mainPc,          \* position of main()
    clients,         \* client.ts clients: per namespace 0 or the Client cached for it
    sharedConnection, \* client.ts sharedConnection: 0 or the connection held
    gets,            \* the getClientForNamespace() invocations, one record per caller
    clientLog,       \* history: the connections opened and the Clients made per namespace
    closePc,         \* position of closeAllClients(): "idle", "closing"
    shutdownPc       \* position of shutdown()

watcherVars == <<remote, tracked, intervalHandle, startPc, stopCalled, timerAfterStop, sync>>

managerVars == <<workers, wk, connection, sa, rs, st>>

gatewayVars == <<tr, routes, registeredTriggers, server, timers, sched, auth, req,
                 cfg, schedSpec, poll, mx, starts>>

clientVars == <<clients, sharedConnection, gets, clientLog, closePc, shutdownPc>>

registryVars == <<made, tm, reg, mainPc, clientVars>>

reconVars == <<indexFile, triggers, hc, registryVars, gatewayVars>>

vars == <<remote, tracked, intervalHandle, startPc, stopCalled, timerAfterStop, sync,
          workers, wk, connection, sa, rs, st, indexFile, triggers, hc,
          tr, routes, registeredTriggers, server, timers, sched, auth, req,
          cfg, schedSpec, poll, mx, starts, made, tm, reg, mainPc,
          clients, sharedConnection, gets, clientLog, closePc, shutdownPc>>

----------------------------------------------------------------------------
(* Inputs *)

\* workflow names, in the order listObjects returns the prefixes
NameSeq == <<"A", "B">>

Range(s) == {s[j] : j \in 1..Len(s)}

Names == Range(NameSeq)

\* number of versions a workflow is deployed in
MaxVersion == 2

VersionPool == <<"v1", "v2", "v3", "v4">>

Versions == {VersionPool[j] : j \in 1..MaxVersion}

RemoteVals == {"absent", "nolatest"} \cup Versions

\* slots for sync() invocations that may be in flight together
SyncSeq == <<"s1", "s2">>

SyncIds == Range(SyncSeq)

----------------------------------------------------------------------------
(* WorkflowWatcher *)

\* index.ts installs handleWorkflowChanges before it starts the watcher
changeHandler == TRUE

\* One sync() invocation: its position and its locals. t0, seen, failed and
\* calls are history, kept only when the step is taken with h = TRUE: the
\* tracked table when the cycle began, the latest version read per name, the
\* names whose download failed, the number of handler invocations.
BlankSync ==
    [pc |-> "idle", deployed |-> <<>>, i |-> 0, ver |-> "none", isNew |-> FALSE,
     added |-> <<>>, updated |-> <<>>, removed |-> <<>>,
     t0 |-> [n \in Names |-> "none"], seen |-> [n \in Names |-> "unread"],
     failed |-> {}, calls |-> 0]

InFlight(s) == sync[s].pc \in {"list", "latest", "meta", "bundle", "handler"}

NoSyncInFlight == \A s \in SyncIds : ~InFlight(s)

\* the first slot that holds no invocation in flight
FreeSlot == SyncSeq[CHOOSE j \in 1..Len(SyncSeq) :
                /\ ~InFlight(SyncSeq[j])
                /\ \A k \in 1..(j - 1) : InFlight(SyncSeq[k])]

\* the artifact store changes: a deploy, a rollback, a removal, a half-made deploy
RemoteChange(n, x) ==
    /\ x # remote[n]
    /\ remote' = [remote EXCEPT ![n] = x]
    /\ UNCHANGED <<tracked, intervalHandle, startPc, stopCalled, timerAfterStop, sync,
                 managerVars, reconVars>>

\* sync() is entered: it runs up to `await listDeployedWorkflows()`
SyncBegin(s, h) ==
    sync' = [sync EXCEPT ![s] =
                [BlankSync EXCEPT !.pc = "list",
                                  !.t0 = IF h THEN tracked ELSE BlankSync.t0]]

\* sync() returns: its locals are gone
SyncEnd(rec, pc2, h) == IF h THEN [rec EXCEPT !.pc = pc2] ELSE BlankSync

\* the names the bucket lists
Listed == SelectSeq(NameSeq, LAMBDA n : remote[n] # "absent")

\* the loop over the tracked table that collects the removed names, and the
\* notification; cleanupLocalWorkflow may throw, which ends the cycle in catch
SyncFinish(s, rec, trk, h) ==
    LET gone == {n \in Names : trk[n] # "none" /\ n \notin Range(rec.deployed)}
        rem(R) == SelectSeq(NameSeq, LAMBDA n : n \in R)
        trkAfter(R) == [n \in Names |-> IF n \in R THEN "none" ELSE trk[n]]
        changed == Len(rec.added) > 0 \/ Len(rec.updated) > 0 \/ gone # {}
    IN  \/ /\ tracked' = trkAfter(gone)
           /\ sync' = [sync EXCEPT ![s] =
                IF changeHandler /\ changed
                THEN [rec EXCEPT !.removed = rem(gone), !.pc = "handler",
                                 !.calls = IF h THEN rec.calls + 1 ELSE rec.calls]
                ELSE SyncEnd([rec EXCEPT !.removed = rem(gone)], "done", h)]
        \/ \E R \in (SUBSET gone) \ {{}} :
              /\ tracked' = trkAfter(R)
              /\ sync' = [sync EXCEPT ![s] =
                    SyncEnd([rec EXCEPT !.removed = rem(R)], "aborted", h)]

\* the end of one iteration of the loop over the deployed names
SyncAdvance(s, rec, trk, h) ==
    IF rec.i < Len(rec.deployed)
    THEN /\ sync' = [sync EXCEPT ![s] = [rec EXCEPT !.i = rec.i + 1, !.pc = "latest"]]
         /\ tracked' = trk
    ELSE SyncFinish(s, rec, trk, h)

\* listDeployedWorkflows() resolves with the listed names
SyncListed(s, h) ==
    /\ sync[s].pc = "list"
    /\ SyncAdvance(s, [sync[s] EXCEPT !.deployed = Listed], tracked, h)
    /\ UNCHANGED <<remote, intervalHandle, startPc, stopCalled, timerAfterStop,
                 managerVars, reconVars>>

\* listDeployedWorkflows() resolves with [] although names are deployed: the
\* bucket check failed or said the bucket does not exist
SyncListEmpty(s, h) ==
    /\ sync[s].pc = "list"
    /\ Listed # <<>>
    /\ SyncAdvance(s, [sync[s] EXCEPT !.deployed = <<>>], tracked, h)
    /\ UNCHANGED <<remote, intervalHandle, startPc, stopCalled, timerAfterStop,
                 managerVars, reconVars>>

\* a stream error rejects listDeployedWorkflows() or getLatestVersion(): the
\* promise they return is not awaited inside their try, so sync()'s catch runs
SyncStreamError(s, h) ==
    /\ sync[s].pc \in {"list", "latest"}
    /\ sync' = [sync EXCEPT ![s] = SyncEnd(sync[s], "aborted", h)]
    /\ UNCHANGED <<remote, tracked, intervalHandle, startPc, stopCalled, timerAfterStop,
                 managerVars, reconVars>>

CurName(rec) == rec.deployed[rec.i]

\* getLatestVersion() resolves with v ("none" for null); then the tracked
\* table is consulted and downloadAndTrack may be entered
SyncLatestResult(s, v, h) ==
    LET rec == sync[s]
        n == CurName(rec)
        read == [rec EXCEPT !.ver = v, !.seen[n] = IF h THEN v ELSE "unread"]
    IN  IF v = "none" \/ tracked[n] = v
        THEN SyncAdvance(s, read, tracked, h)
        ELSE /\ sync' = [sync EXCEPT ![s] =
                    [read EXCEPT !.pc = "meta", !.isNew = (tracked[n] = "none")]]
             /\ tracked' = tracked

\* getLatestVersion() reads <name>/latest
SyncLatest(s, h) ==
    /\ sync[s].pc = "latest"
    /\ LET r == remote[CurName(sync[s])]
       IN  SyncLatestResult(s, IF r \in Versions THEN r ELSE "none", h)
    /\ UNCHANGED <<remote, intervalHandle, startPc, stopCalled, timerAfterStop,
                 managerVars, reconVars>>

\* getObject fails although the pointer exists: getLatestVersion() gives null
SyncLatestFails(s, h) ==
    /\ sync[s].pc = "latest"
    /\ remote[CurName(sync[s])] \in Versions
    /\ SyncLatestResult(s, "none", h)
    /\ UNCHANGED <<remote, intervalHandle, startPc, stopCalled, timerAfterStop,
                 managerVars, reconVars>>

\* downloadAndTrack: getWorkflowMetadata() gives the metadata
SyncMeta(s) ==
    /\ sync[s].pc = "meta"
    /\ sync' = [sync EXCEPT ![s].pc = "bundle"]
    /\ UNCHANGED <<remote, tracked, intervalHandle, startPc, stopCalled, timerAfterStop,
                 managerVars, reconVars>>

\* mutant: the table is set before the bundle is fetched
DownloadFailedTracksAnyway(s, rec, h) ==
    SyncAdvance(s, [rec EXCEPT !.failed = IF h THEN rec.failed \cup {CurName(rec)}
                                         ELSE rec.failed],
                [tracked EXCEPT ![CurName(rec)] = rec.ver], h)

\* downloadAndTrack returns null: no metadata, or the metadata or the bundle
\* fetch threw
DownloadFailed(s, rec, h) ==
    SyncAdvance(s, [rec EXCEPT !.failed = IF h THEN rec.failed \cup {CurName(rec)}
                                         ELSE rec.failed], tracked, h)

SyncDownloadFails(s, h) ==
    /\ sync[s].pc \in {"meta", "bundle"}
    /\ DownloadFailed(s, sync[s], h)
    /\ UNCHANGED <<remote, intervalHandle, startPc, stopCalled, timerAfterStop,
                 managerVars, reconVars>>

\* mutant: every downloaded workflow is reported as added
DownloadedAlwaysAdded(s, rec, h) ==
    SyncAdvance(s, [rec EXCEPT !.added = Append(rec.added, CurName(rec))],
                [tracked EXCEPT ![CurName(rec)] = rec.ver], h)

\* downloadAndTrack: the bundle is there; the table is set and sync() appends
\* the workflow to added or updated
Downloaded(s, rec, h) ==
    LET n == CurName(rec)
        rec2 == IF rec.isNew
                THEN [rec EXCEPT !.added = Append(rec.added, n)]
                ELSE [rec EXCEPT !.updated = Append(rec.updated, n)]
    IN  SyncAdvance(s, rec2, [tracked EXCEPT ![n] = rec.ver], h)

SyncBundle(s, h) ==
    /\ sync[s].pc = "bundle"
    /\ Downloaded(s, sync[s], h)
    /\ UNCHANGED <<remote, intervalHandle, startPc, stopCalled, timerAfterStop,
                 managerVars, reconVars>>

\* the change handler resolves, or rejects into sync()'s catch
SyncHandlerReturns(s, h) ==
    /\ sync[s].pc = "handler"
    /\ \E pc2 \in {"done", "aborted"} :
          sync' = [sync EXCEPT ![s] = SyncEnd(sync[s], pc2, h)]
    /\ UNCHANGED <<remote, tracked, intervalHandle, startPc, stopCalled, timerAfterStop,
                 managerVars, reconVars>>

\* start(): the initial sync is entered
Start(h) ==
    /\ startPc = "idle"
    /\ startPc' = "initial"
    /\ SyncBegin(SyncSeq[1], h)
    /\ UNCHANGED <<remote, tracked, intervalHandle, stopCalled, timerAfterStop,
                 managerVars, reconVars>>

\* start(): the initial sync has settled, setInterval arms the timer
StartArm ==
    /\ startPc = "initial"
    /\ ~InFlight(SyncSeq[1])
    /\ startPc' = "started"
    /\ intervalHandle' = TRUE
    /\ UNCHANGED <<remote, tracked, stopCalled, timerAfterStop, sync,
                 managerVars, reconVars>>

\* stop()
Stop ==
    /\ intervalHandle' = FALSE
    /\ stopCalled' = TRUE
    /\ UNCHANGED <<remote, tracked, startPc, timerAfterStop, sync,
                 managerVars, reconVars>>

\* the interval timer fires and calls sync()
TimerFire(h) ==
    /\ intervalHandle
    /\ \E s \in SyncIds : ~InFlight(s)
    /\ SyncBegin(FreeSlot, h)
    /\ timerAfterStop' = (timerAfterStop \/ stopCalled)
    /\ UNCHANGED <<remote, tracked, intervalHandle, startPc, stopCalled,
                 managerVars, reconVars>>

\* the steps of sync() up to the notification
SyncIO(s, h) ==
    \/ SyncListed(s, h)
    \/ SyncListEmpty(s, h)
    \/ SyncStreamError(s, h)
    \/ SyncLatest(s, h)
    \/ SyncLatestFails(s, h)
    \/ SyncMeta(s)
    \/ SyncDownloadFails(s, h)
    \/ SyncBundle(s, h)

SyncStep(s, h) == SyncIO(s, h) \/ SyncHandlerReturns(s, h)

----------------------------------------------------------------------------
(* WorkerManager *)

\* getWorkerKey(namespace, taskQueue): the keys the definitions use
Keys == {"k1", "k2"}

HomeKey(n) == IF n = "A" THEN "k1" ELSE "k2"

\* number of execution workers that exist together
MaxWorkers == 2

WorkerIds == 1..MaxWorkers

\* a ManagedWorker: worker and runPromise hold a worker id, 0 for null
BlankGroup == [worker |-> 0, run |-> 0, workflows |-> <<>>]

EmptyPool == [order |-> <<>>, g |-> [k \in Keys |-> BlankGroup]]

\* a Worker of the execution engine: "free" (no such object), "running",
\* "draining" (shutdown signalled, run() not yet settled), "stopped" (run()
\* settled); built is the workflows index it was bundled from
BlankWorker == [state |-> "free", key |-> "none", built |-> {}]

BlankStartAll == [pc |-> "idle", idx |-> 0, cur |-> "none", det |-> FALSE,
                  h0 |-> [k \in Keys |-> 0]]

BlankRestart == [pc |-> "idle", key |-> "none", old |-> 0, det |-> FALSE]

BlankStopAll == [pc |-> "idle", waiting |-> {}]

HasGroup(ws, k) == k \in Range(ws.order)

Live(w) == wk[w].state \in {"running", "draining"}

\* a stopped worker that nothing refers to any more is garbage
Collect(wkv, ws, rsv, stv) ==
    [w \in WorkerIds |->
        IF /\ wkv[w].state = "stopped"
           /\ \A k \in Keys : ws.g[k].worker # w
           /\ rsv.old # w
           /\ w \notin stv.waiting
        THEN BlankWorker ELSE wkv[w]]

FreeWorker == CHOOSE w \in WorkerIds :
                /\ wk[w].state = "free"
                /\ \A v \in 1..(w - 1) : wk[v].state # "free"

CanCreate == \E w \in WorkerIds : wk[w].state = "free"

\* registerWorkflow(workflow) of the manager that loads ../workflows: the
\* name is pushed without a check
RegisteredLegacy(ws, n, k) ==
    IF HasGroup(ws, k)
    THEN [ws EXCEPT !.g[k].workflows = Append(@, n)]
    ELSE [order |-> Append(ws.order, k),
          g |-> [ws.g EXCEPT ![k] = [worker |-> 0, run |-> 0, workflows |-> <<n>>]]]

\* registerWorkflow(workflow): the pool after the call
Registered(ws, n, k) ==
    IF HasGroup(ws, k)
    THEN [ws EXCEPT !.g[k].workflows = IF n \in Range(@) THEN @ ELSE Append(@, n)]
    ELSE [order |-> Append(ws.order, k),
          g |-> [ws.g EXCEPT ![k] = [worker |-> 0, run |-> 0, workflows |-> <<n>>]]]

\* longest workflow list of a group
MaxList == 3

RegisterWorkflowLegacy(n, k) ==
    /\ Len(workers.g[k].workflows) < MaxList
    /\ workers' = RegisteredLegacy(workers, n, k)
    /\ UNCHANGED <<watcherVars, reconVars, wk, connection, sa, rs, st>>

RegisterWorkflow(n, k) ==
    /\ workers' = Registered(workers, n, k)
    /\ UNCHANGED <<watcherVars, reconVars, wk, connection, sa, rs, st>>

\* mutant: an awaited run promise counts as settled at once
RunSettledAtOnce(wkv, w) == TRUE

\* `await managed.runPromise`: the run of worker w has settled
RunSettled(wkv, w) == wkv[w].state = "stopped"

\* worker.shutdown() on a running worker
Shutdown(wkv, W) ==
    [w \in WorkerIds |->
        IF w \in W /\ wkv[w].state = "running"
        THEN [wkv[w] EXCEPT !.state = "draining"] ELSE wkv[w]]

\* the worker's run() settles after a shutdown signal
WorkerRunEnds(w) ==
    /\ wk[w].state = "draining"
    /\ wk' = Collect([wk EXCEPT ![w].state = "stopped"], workers, rs, st)
    /\ UNCHANGED <<watcherVars, reconVars, workers, connection, sa, rs, st>>

\* the worker's run() rejects by itself; the catch on runPromise logs it
WorkerRunFails(w) ==
    /\ wk[w].state = "running"
    /\ wk' = Collect([wk EXCEPT ![w].state = "stopped"], workers, rs, st)
    /\ UNCHANGED <<watcherVars, reconVars, workers, connection, sa, rs, st>>

\* mutant: the loop does not skip the groups that have a worker
StartAllScanAll(rec, ws) ==
    LET todo == (rec.idx + 1)..Len(ws.order)
    IN  IF todo = {}
        THEN [rec EXCEPT !.pc = "done", !.idx = Len(ws.order), !.cur = "none",
                         !.det = FALSE]
        ELSE LET j == CHOOSE x \in todo : \A y \in todo : x <= y
             IN  [rec EXCEPT !.pc = "create", !.idx = j, !.cur = ws.order[j],
                             !.det = FALSE]

\* startAll: the for...of loop runs on to the next group without a worker and
\* calls Worker.create for it, or ends
StartAllScan(rec, ws) ==
    LET todo == {j \in (rec.idx + 1)..Len(ws.order) : ws.g[ws.order[j]].worker = 0}
    IN  IF todo = {}
        THEN [rec EXCEPT !.pc = "done", !.idx = Len(ws.order), !.cur = "none",
                         !.det = FALSE]
        ELSE LET j == CHOOSE x \in todo : \A y \in todo : x <= y
             IN  [rec EXCEPT !.pc = "create", !.idx = j, !.cur = ws.order[j],
                             !.det = FALSE]

Handles(ws) == [k \in Keys |-> ws.g[k].worker]

\* startAll() is called; h0 is history, kept when h = TRUE: the handles at
\* the call
StartAllEnter(h) ==
    /\ sa.pc = "idle"
    /\ LET rec == [BlankStartAll EXCEPT !.h0 = IF h THEN Handles(workers) ELSE @]
       IN  sa' = IF connection THEN StartAllScan(rec, workers)
                 ELSE [rec EXCEPT !.pc = "connect"]
    /\ UNCHANGED <<watcherVars, workers, wk, connection, rs, st>>

StartAllCall(h) == StartAllEnter(h) /\ UNCHANGED reconVars

\* getConnection(): NativeConnection.connect resolves
StartAllConnected ==
    /\ sa.pc = "connect"
    /\ connection' = TRUE
    /\ sa' = StartAllScan(sa, workers)
    /\ UNCHANGED <<watcherVars, reconVars, workers, wk, rs, st>>

\* NativeConnection.connect or Worker.create rejects: startAll() rejects
StartAllFails ==
    /\ sa.pc \in {"connect", "create"}
    /\ sa' = [sa EXCEPT !.pc = "rejected"]
    /\ UNCHANGED <<watcherVars, reconVars, workers, wk, connection, rs, st>>

\* mutant: the new worker is not stored in the group
MaterializedNowhere(ws, k, w, det) == ws

\* managed.worker = worker; managed.runPromise = worker.run()...; the record
\* is no longer in the pool when stopAll cleared it meanwhile (det)
Materialized(ws, k, w, det) ==
    IF det THEN ws ELSE [ws EXCEPT !.g[k].worker = w, !.g[k].run = w]

\* the engine worker Worker.create makes for key k
NewWorker(k) == [state |-> "running", key |-> k, built |-> indexFile]

\* Worker.create resolves in startAll
StartAllCreated ==
    /\ sa.pc = "create"
    /\ CanCreate
    /\ LET w == FreeWorker
           ws == Materialized(workers, sa.cur, w, sa.det)
       IN  /\ workers' = ws
           /\ wk' = Collect([wk EXCEPT ![w] = NewWorker(sa.cur)], ws, rs, st)
           /\ sa' = StartAllScan(sa, ws)
    /\ UNCHANGED <<watcherVars, reconVars, connection, rs, st>>

\* the caller of startAll() takes the result
StartAllReturn ==
    /\ sa.pc \in {"done", "rejected"}
    /\ sa' = BlankStartAll
    /\ UNCHANGED <<watcherVars, reconVars, workers, wk, connection, rs, st>>

\* mutant: the handles of all groups are cleared
RestartClearedAll(ws, rec) ==
    [ws EXCEPT !.g = [k \in Keys |-> [ws.g[k] EXCEPT !.worker = 0, !.run = 0]]]

\* restartWorker: the handle is cleared and getConnection() is awaited
RestartCleared(ws, rec) ==
    IF rec.det THEN ws
    ELSE [ws EXCEPT !.g[rec.key].worker = 0, !.g[rec.key].run = 0]

\* restartWorker(namespace, taskQueue) is called: no group or no worker
\* returns at once; else the worker is signalled and its run awaited, which
\* takes no event when the run has settled before
RestartEnter(k) ==
    /\ rs.pc = "idle"
    /\ IF ~HasGroup(workers, k) \/ workers.g[k].worker = 0
       THEN /\ rs' = [BlankRestart EXCEPT !.pc = "done", !.key = k]
            /\ UNCHANGED <<wk, workers>>
       ELSE IF wk[workers.g[k].worker].state = "stopped"
       THEN LET r2 == [BlankRestart EXCEPT !.key = k,
                            !.pc = IF connection THEN "create" ELSE "connect"]
                ws == RestartCleared(workers, r2)
            IN  /\ rs' = r2
                /\ workers' = ws
                /\ wk' = Collect(wk, ws, r2, st)
       ELSE /\ rs' = [BlankRestart EXCEPT !.pc = "drain", !.key = k,
                                          !.old = workers.g[k].worker]
            /\ wk' = Shutdown(wk, {workers.g[k].worker})
            /\ UNCHANGED workers
    /\ UNCHANGED <<watcherVars, connection, sa, st>>

RestartCall(k) == RestartEnter(k) /\ UNCHANGED reconVars

\* restartWorker: shutdown() throws on a worker that is not running
RestartEnterThrows(k) ==
    /\ rs.pc = "idle"
    /\ HasGroup(workers, k)
    /\ workers.g[k].worker # 0
    /\ wk[workers.g[k].worker].state # "running"
    /\ rs' = [BlankRestart EXCEPT !.pc = "rejected", !.key = k]
    /\ UNCHANGED <<watcherVars, workers, wk, connection, sa, st>>

RestartShutdownThrows(k) == RestartEnterThrows(k) /\ UNCHANGED reconVars

\* restartWorker: the old run has settled; the handle is cleared and
\* getConnection() is awaited
RestartDrained ==
    /\ rs.pc = "drain"
    /\ RunSettled(wk, rs.old)
    /\ LET ws == RestartCleared(workers, rs)
           r2 == [rs EXCEPT !.pc = IF connection THEN "create" ELSE "connect", !.old = 0]
       IN  /\ workers' = ws
           /\ rs' = r2
           /\ wk' = Collect(wk, ws, r2, st)
    /\ UNCHANGED <<watcherVars, reconVars, connection, sa, st>>

RestartConnected ==
    /\ rs.pc = "connect"
    /\ connection' = TRUE
    /\ rs' = [rs EXCEPT !.pc = "create"]
    /\ UNCHANGED <<watcherVars, reconVars, workers, wk, sa, st>>

\* NativeConnection.connect or Worker.create rejects: restartWorker() rejects
RestartFails ==
    /\ rs.pc \in {"connect", "create"}
    /\ rs' = [rs EXCEPT !.pc = "rejected"]
    /\ UNCHANGED <<watcherVars, reconVars, workers, wk, connection, sa, st>>

\* Worker.create resolves in restartWorker
RestartCreated ==
    /\ rs.pc = "create"
    /\ CanCreate
    /\ LET w == FreeWorker
           ws == Materialized(workers, rs.key, w, rs.det)
       IN  /\ workers' = ws
           /\ wk' = Collect([wk EXCEPT ![w] = NewWorker(rs.key)], ws, rs, st)
    /\ rs' = [rs EXCEPT !.pc = "done"]
    /\ UNCHANGED <<watcherVars, reconVars, connection, sa, st>>

RestartReturn ==
    /\ rs.pc \in {"done", "rejected"}
    /\ rs' = BlankRestart
    /\ UNCHANGED <<watcherVars, reconVars, workers, wk, connection, sa, st>>

\* mutant: stopAll finds no worker to signal
HandledNone(ws) == {}

\* the workers the groups of the pool refer to
Handled(ws) == {ws.g[k].worker : k \in Range(ws.order)} \ {0}

\* stopAll: every awaited run has settled; the pool is cleared, which cuts
\* the records that startAll and restartWorker still hold off the pool, and
\* the connection is closed
StopAllCleared(wkv) ==
    LET s2 == [pc |-> IF connection THEN "close" ELSE "done", waiting |-> {}]
        r2 == IF rs.pc \in {"drain", "connect", "create"}
              THEN [rs EXCEPT !.det = TRUE] ELSE rs
    IN  /\ workers' = EmptyPool
        /\ st' = s2
        /\ rs' = r2
        /\ sa' = IF sa.pc = "create" THEN [sa EXCEPT !.det = TRUE, !.idx = 0]
                 ELSE IF sa.pc = "connect" THEN [sa EXCEPT !.idx = 0]
                 ELSE sa
        /\ wk' = Collect(wkv, EmptyPool, r2, s2)

\* stopAll() is called: every materialized worker is signalled, then all the
\* run promises are awaited together, which takes no event when all of them
\* have settled before
StopAllEnter ==
    /\ st.pc = "idle"
    /\ LET W == Handled(workers)
           wk2 == Shutdown(wk, W)
       IN  IF \A w \in W : wk2[w].state = "stopped"
           THEN StopAllCleared(wk2)
           ELSE /\ wk' = wk2
                /\ st' = [pc |-> "wait", waiting |-> W]
                /\ UNCHANGED <<workers, sa, rs>>

\* a caller calls stopAll()
StopAllCall ==
    /\ StopAllEnter
    /\ UNCHANGED <<watcherVars, reconVars, connection>>

\* stopAll: shutdown() throws on the first worker of the pool that is not
\* running; the workers before it have been signalled
StopAllThrowsEnter ==
    /\ st.pc = "idle"
    /\ \E j \in 1..Len(workers.order) :
          LET w == workers.g[workers.order[j]].worker
              before == {workers.g[workers.order[i]].worker : i \in 1..(j - 1)} \ {0}
          IN  /\ w # 0
              /\ wk[w].state # "running"
              /\ \A v \in before : wk[v].state = "running"
              /\ wk' = Shutdown(wk, before)
    /\ st' = [pc |-> "rejected", waiting |-> {}]

\* a caller calls stopAll() and shutdown() throws
StopAllShutdownThrows ==
    /\ StopAllThrowsEnter
    /\ UNCHANGED <<watcherVars, reconVars, workers, connection, sa, rs>>

\* stopAll: the last of the awaited runs has settled
StopAllDrained ==
    /\ st.pc = "wait"
    /\ \A w \in st.waiting : RunSettled(wk, w)
    /\ StopAllCleared(wk)
    /\ UNCHANGED <<watcherVars, reconVars, connection>>

\* stopAll: connection.close() resolves
StopAllClosed ==
    /\ st.pc = "close"
    /\ connection' = FALSE
    /\ st' = [st EXCEPT !.pc = "done"]
    /\ UNCHANGED <<watcherVars, reconVars, workers, wk, sa, rs>>

StopAllReturn ==
    /\ st.pc \in {"done", "rejected"}
    /\ st' = BlankStopAll
    /\ UNCHANGED <<watcherVars, reconVars, workers, wk, connection, sa, rs>>

WorkerEvent == \E w \in WorkerIds : WorkerRunEnds(w) \/ WorkerRunFails(w)

StartAllStep == StartAllConnected \/ StartAllFails \/ StartAllCreated

RestartStep == RestartDrained \/ RestartConnected \/ RestartFails \/ RestartCreated

StopAllStep == StopAllDrained \/ StopAllClosed

\* one handleWorkflowChanges() invocation: the sync() that awaits it, its
\* arguments, the index of the loop over updated; threw is the name whose
\* triggerManager.register() threw, restarted is history: the keys
\* restartWorker() was called with
BlankHandler == [pc |-> "idle", slot |-> "none", added |-> <<>>, updated |-> <<>>,
                 removed |-> <<>>, j |-> 0, threw |-> "none", restarted |-> {}]

----------------------------------------------------------------------------
(* Triggers and the shared webhook server *)

\* the triggers: two webhook triggers, a polling, a schedule and a manual one
TrigIds == {"w1", "w2", "p1", "s1", "m1"}

Kind(x) == CASE x \in {"w1", "w2"} -> "webhook"
             [] x = "p1" -> "polling"
             [] x = "s1" -> "schedule"
             [] x = "m1" -> "manual"

WebhookIds == {x \in TrigIds : Kind(x) = "webhook"}

PollingIds == {x \in TrigIds : Kind(x) = "polling"}

\* BaseTrigger.isRunning, and the start() or stop() call of the trigger that
\* is in flight: op "none", "start", "stop"; pc "idle", "client", "await",
\* "update", "early" (returned at the head), "done", "rejected"
BlankTrigger == [running |-> FALSE, pc |-> "idle", op |-> "none"]

\* most handlers the router holds
MaxRoutes == 2

\* what is outside the triggers and the server
outsideVars == <<watcherVars, managerVars, indexFile, triggers, hc, registryVars>>

\* what the stretch of a start() or stop() call up to its first await works on
Gw == [tr |-> tr, routes |-> routes, registeredTriggers |-> registeredTriggers,
       server |-> server, timers |-> timers, poll |-> poll, starts |-> starts]

SetGw(g) ==
    /\ tr' = g.tr
    /\ routes' = g.routes
    /\ registeredTriggers' = g.registeredTriggers
    /\ server' = g.server
    /\ timers' = g.timers
    /\ poll' = g.poll
    /\ starts' = g.starts

\* mutant: start() does not look at isRunning
AlreadyRunningNever(x) == FALSE

\* `if (this.isRunning)` at the head of start()
AlreadyRunning(x) == tr[x].running

\* a start() or stop() that returns at its head
TrigNoOp(g, x, o) == [g EXCEPT !.tr[x].pc = "early", !.tr[x].op = o]

\* history: the start() call has passed the isRunning test
Passed(g, x, h) == IF h THEN [g EXCEPT !.starts[x] = @ + 1] ELSE g

\* a JSON value the probe endpoint answers with: its type and its length,
\* key count or value
MaxSize == 1

NoData == [type |-> "none", size |-> 0]

ProbeData ==
    {[type |-> "null", size |-> 0]}
    \cup [type : {"array", "object", "string", "number"}, size : 0..MaxSize]

\* Boolean(data)
Truthy(d) == CASE d.type = "null" -> FALSE
               [] d.type \in {"array", "object"} -> TRUE
               [] d.type \in {"string", "number"} -> d.size # 0

\* Object.keys(data).length: the keys of an object, the indexes of a string,
\* nothing for a number
KeyCount(d) == IF d.type \in {"object", "string"} THEN d.size ELSE 0

\* Boolean(data && (Array.isArray(data) ? data.length > 0 : Object.keys(data).length > 0))
shouldStart(d) ==
    Truthy(d) /\ (IF d.type = "array" THEN d.size > 0 ELSE KeyCount(d) > 0)

\* one poll(): who called it ("start", "timer"), how the probe went ("none"
\* when no endpoint is configured, "threw", "notok", "ok", "badjson"), the
\* parsed answer, the decision, the number of client.workflow.start calls
BlankPoll == [pc |-> "idle", from |-> "none", probe |-> "none", data |-> NoData,
              trigger |-> FALSE, starts |-> 0]

\* poll() is entered: shouldTrigger() fetches the endpoint when one is
\* configured; when none is, it says {trigger: true} and startWorkflow awaits
\* the client of the namespace
PollEntered(from) ==
    IF cfg.endpoint
    THEN [BlankPoll EXCEPT !.pc = "probe", !.from = from]
    ELSE [BlankPoll EXCEPT !.pc = "client", !.from = from, !.trigger = TRUE]

\* WebhookTrigger.start() up to `await startServer()`: the handler is added
\* to the shared router and the count is raised; startServer() listens when
\* there is no server instance and returns at once when there is one
WebhookStartHead(g, x, h) ==
    IF AlreadyRunning(x) THEN TrigNoOp(g, x, "start")
    ELSE [Passed(g, x, h) EXCEPT
            !.routes = Append(@, x),
            !.registeredTriggers = @ + 1,
            !.server = IF @ = "none" THEN "binding" ELSE @,
            !.tr[x] = IF g.server = "none"
                      THEN [running |-> FALSE, pc |-> "await", op |-> "start"]
                      ELSE [running |-> TRUE, pc |-> "done", op |-> "start"]]

\* WebhookTrigger.stop() up to `await stopServer()`: the count is lowered
\* and isRunning cleared; stopServer() closes the server when the count is 0
WebhookStopHead(g, x) ==
    IF ~g.tr[x].running THEN TrigNoOp(g, x, "stop")
    ELSE IF g.server # "none" /\ g.registeredTriggers - 1 = 0
         THEN [g EXCEPT !.registeredTriggers = @ - 1,
                        !.server = "closing",
                        !.tr[x] = [running |-> FALSE, pc |-> "await", op |-> "stop"]]
         ELSE [g EXCEPT !.registeredTriggers = @ - 1,
                        !.tr[x] = [running |-> FALSE, pc |-> "done", op |-> "stop"]]

\* PollingTrigger.start() up to the first await of poll(): isRunning is set
PollingStartHead(g, x, h) ==
    IF AlreadyRunning(x) THEN TrigNoOp(g, x, "start")
    ELSE [Passed(g, x, h) EXCEPT
            !.tr[x] = [running |-> TRUE, pc |-> "await", op |-> "start"],
            !.poll[x] = PollEntered("start")]

\* PollingTrigger.stop(): clearInterval, isRunning cleared
PollingStopHead(g, x) ==
    IF ~g.tr[x].running THEN TrigNoOp(g, x, "stop")
    ELSE [g EXCEPT !.timers[x] = FALSE,
                   !.tr[x] = [running |-> FALSE, pc |-> "done", op |-> "stop"]]

\* ScheduleTrigger.start() up to `await getClientForNamespace()`
ScheduleStartHead(g, x, h) ==
    IF AlreadyRunning(x) THEN TrigNoOp(g, x, "start")
    ELSE [Passed(g, x, h) EXCEPT !.tr[x].pc = "client", !.tr[x].op = "start"]

\* ScheduleTrigger.stop() up to `await handle.delete()`
ScheduleStopHead(g, x) ==
    IF ~g.tr[x].running THEN TrigNoOp(g, x, "stop")
    ELSE [g EXCEPT !.tr[x].pc = "await", !.tr[x].op = "stop"]

\* ManualTrigger.start()
ManualStartHead(g, x, h) ==
    IF AlreadyRunning(x) THEN TrigNoOp(g, x, "start")
    ELSE [Passed(g, x, h) EXCEPT
            !.tr[x] = [running |-> TRUE, pc |-> "done", op |-> "start"]]

\* ManualTrigger.stop()
ManualStopHead(g, x) ==
    IF ~g.tr[x].running THEN TrigNoOp(g, x, "stop")
    ELSE [g EXCEPT !.tr[x] = [running |-> FALSE, pc |-> "done", op |-> "stop"]]

\* trigger.start() of whatever class the trigger has
StartHead(g, x, h) ==
    CASE Kind(x) = "webhook" -> WebhookStartHead(g, x, h)
      [] Kind(x) = "polling" -> PollingStartHead(g, x, h)
      [] Kind(x) = "schedule" -> ScheduleStartHead(g, x, h)
      [] Kind(x) = "manual" -> ManualStartHead(g, x, h)

\* trigger.stop() of whatever class the trigger has
StopHead(g, x) ==
    CASE Kind(x) = "webhook" -> WebhookStopHead(g, x)
      [] Kind(x) = "polling" -> PollingStopHead(g, x)
      [] Kind(x) = "schedule" -> ScheduleStopHead(g, x)
      [] Kind(x) = "manual" -> ManualStopHead(g, x)

\* a caller calls start() of a webhook trigger
WebhookStart(x) ==
    /\ Kind(x) = "webhook"
    /\ tr[x].pc = "idle"
    /\ AlreadyRunning(x) \/ Len(routes) < MaxRoutes
    /\ SetGw(WebhookStartHead(Gw, x, FALSE))
    /\ UNCHANGED <<outsideVars, sched, auth, req, cfg, schedSpec, mx>>

\* the listen callback: startServer() resolves, start() sets isRunning
ServerListening ==
    /\ server = "binding"
    /\ server' = "up"
    /\ tr' = [x \in TrigIds |->
                IF Kind(x) = "webhook" /\ tr[x].op = "start" /\ tr[x].pc = "await"
                THEN [tr[x] EXCEPT !.running = TRUE, !.pc = "done"] ELSE tr[x]]
    /\ UNCHANGED <<outsideVars, routes, registeredTriggers, timers, sched, auth, req,
                 cfg, schedSpec, poll, mx, starts>>

\* a caller calls stop() of a webhook trigger
WebhookStop(x) ==
    /\ Kind(x) = "webhook"
    /\ tr[x].pc = "idle"
    /\ SetGw(WebhookStopHead(Gw, x))
    /\ UNCHANGED <<outsideVars, sched, auth, req, cfg, schedSpec, mx>>

\* the close callback: the server instance, the app and the router are
\* dropped and stopServer() resolves
ServerClosed ==
    /\ server = "closing"
    /\ server' = "none"
    /\ routes' = <<>>
    /\ tr' = [x \in TrigIds |->
                IF Kind(x) = "webhook" /\ tr[x].op = "stop" /\ tr[x].pc = "await"
                THEN [tr[x] EXCEPT !.pc = "done"] ELSE tr[x]]
    /\ UNCHANGED <<outsideVars, registeredTriggers, timers, sched, auth, req,
                 cfg, schedSpec, poll, mx, starts>>

\* a caller calls start() of a polling trigger: the first poll is awaited
PollingStart(x) ==
    /\ Kind(x) = "polling"
    /\ tr[x].pc = "idle"
    /\ AlreadyRunning(x) \/ poll[x].pc = "idle"
    /\ SetGw(PollingStartHead(Gw, x, FALSE))
    /\ UNCHANGED <<outsideVars, sched, auth, req, cfg, schedSpec, mx>>

\* PollingTrigger.start(): the first poll has settled (poll() catches what it
\* throws); setInterval arms the timer
PollingArmed(x) ==
    /\ Kind(x) = "polling"
    /\ tr[x].op = "start" /\ tr[x].pc = "await"
    /\ poll[x].pc = "settled" /\ poll[x].from = "start"
    /\ timers' = [timers EXCEPT ![x] = TRUE]
    /\ tr' = [tr EXCEPT ![x].pc = "done"]
    /\ poll' = [poll EXCEPT ![x] = BlankPoll]
    /\ UNCHANGED <<outsideVars, routes, registeredTriggers, server, sched, auth, req,
                 cfg, schedSpec, mx, starts>>

\* a caller calls stop() of a polling trigger
PollingStop(x) ==
    /\ Kind(x) = "polling"
    /\ tr[x].pc = "idle"
    /\ SetGw(PollingStopHead(Gw, x))
    /\ UNCHANGED <<outsideVars, sched, auth, req, cfg, schedSpec, mx>>

\* stop() of a polling trigger is called while its start() awaits the first
\* poll: isRunning is set and the timer is not yet armed, so stop() clears
\* isRunning and returns; it has no await, the call is one step
PollingStopInStart(x) ==
    /\ Kind(x) = "polling"
    /\ tr[x].op = "start" /\ tr[x].pc = "await"
    /\ tr[x].running
    /\ timers' = [timers EXCEPT ![x] = FALSE]
    /\ tr' = [tr EXCEPT ![x].running = FALSE]
    /\ UNCHANGED <<outsideVars, routes, registeredTriggers, server, sched, auth, req,
                 cfg, schedSpec, poll, mx, starts>>

\* a caller calls start() of a schedule trigger: the client of the
\* namespace is awaited
ScheduleStart(x) ==
    /\ Kind(x) = "schedule"
    /\ tr[x].pc = "idle"
    /\ SetGw(ScheduleStartHead(Gw, x, FALSE))
    /\ UNCHANGED <<outsideVars, sched, auth, req, cfg, schedSpec, mx>>

\* ScheduleTrigger.start(): the client is there, scheduleClient.create is awaited
ScheduleClientReady(x) ==
    /\ Kind(x) = "schedule"
    /\ tr[x].op = "start" /\ tr[x].pc = "client"
    /\ tr' = [tr EXCEPT ![x].pc = "await"]
    /\ UNCHANGED <<outsideVars, routes, registeredTriggers, server, timers, sched, auth, req,
                 cfg, schedSpec, poll, mx, starts>>

\* buildScheduleSpec(): the cron expression, else the interval, else an
\* interval of an hour
buildScheduleSpec(c) ==
    IF c.cron THEN "cron" ELSE IF c.intervalMs THEN "interval" ELSE "hourly"

\* ScheduleTrigger.start(): create resolves, the engine has made the
\* schedule; isRunning is set
ScheduleCreated(x) ==
    /\ Kind(x) = "schedule"
    /\ tr[x].op = "start" /\ tr[x].pc = "await"
    /\ ~sched
    /\ sched' = TRUE
    /\ schedSpec' = buildScheduleSpec(cfg)
    /\ tr' = [tr EXCEPT ![x].running = TRUE, ![x].pc = "done"]
    /\ UNCHANGED <<outsideVars, routes, registeredTriggers, server, timers, auth, req,
                 cfg, poll, mx, starts>>

\* ScheduleTrigger.start(): create rejects with "already exists"; the catch
\* takes the handle of the schedule and awaits its update
ScheduleExists(x) ==
    /\ Kind(x) = "schedule"
    /\ tr[x].op = "start" /\ tr[x].pc = "await"
    /\ sched
    /\ tr' = [tr EXCEPT ![x].pc = "update"]
    /\ UNCHANGED <<outsideVars, routes, registeredTriggers, server, timers, sched, auth, req,
                 cfg, schedSpec, poll, mx, starts>>

\* mutant: the update gives the schedule back as it was
ScheduleUpdatedKeepsSpec(x) ==
    /\ Kind(x) = "schedule"
    /\ tr[x].op = "start" /\ tr[x].pc = "update"
    /\ tr' = [tr EXCEPT ![x].running = TRUE, ![x].pc = "done"]
    /\ UNCHANGED <<outsideVars, routes, registeredTriggers, server, timers, sched, auth, req,
                 cfg, schedSpec, poll, mx, starts>>

\* ScheduleTrigger.start(): the update resolves, the schedule has the spec
\* of this trigger; isRunning is set
ScheduleUpdated(x) ==
    /\ Kind(x) = "schedule"
    /\ tr[x].op = "start" /\ tr[x].pc = "update"
    /\ schedSpec' = buildScheduleSpec(cfg)
    /\ tr' = [tr EXCEPT ![x].running = TRUE, ![x].pc = "done"]
    /\ UNCHANGED <<outsideVars, routes, registeredTriggers, server, timers, sched, auth, req,
                 cfg, poll, mx, starts>>

\* ScheduleTrigger.start(): the client or the update rejects, or create
\* rejects with another error than "already exists"
ScheduleStartFails(x) ==
    /\ Kind(x) = "schedule"
    /\ tr[x].op = "start" /\ tr[x].pc \in {"client", "await", "update"}
    /\ tr' = [tr EXCEPT ![x].pc = "rejected"]
    /\ UNCHANGED <<outsideVars, routes, registeredTriggers, server, timers, sched, auth, req,
                 cfg, schedSpec, poll, mx, starts>>

\* a caller calls stop() of a schedule trigger: handle.delete() is awaited
ScheduleStop(x) ==
    /\ Kind(x) = "schedule"
    /\ tr[x].pc = "idle"
    /\ SetGw(ScheduleStopHead(Gw, x))
    /\ UNCHANGED <<outsideVars, sched, auth, req, cfg, schedSpec, mx>>

\* ScheduleTrigger.stop(): delete() resolves (gone = TRUE) or rejects, which
\* is caught; isRunning is cleared
ScheduleDeleted(x, gone) ==
    /\ Kind(x) = "schedule"
    /\ tr[x].op = "stop" /\ tr[x].pc = "await"
    /\ sched' = IF gone THEN FALSE ELSE sched
    /\ schedSpec' = IF gone THEN "none" ELSE schedSpec
    /\ tr' = [tr EXCEPT ![x].running = FALSE, ![x].pc = "done"]
    /\ UNCHANGED <<outsideVars, routes, registeredTriggers, server, timers, auth, req,
                 cfg, poll, mx, starts>>

\* a caller calls start() of a manual trigger
ManualStart(x) ==
    /\ Kind(x) = "manual"
    /\ tr[x].pc = "idle"
    /\ SetGw(ManualStartHead(Gw, x, FALSE))
    /\ UNCHANGED <<outsideVars, sched, auth, req, cfg, schedSpec, mx>>

\* a caller calls stop() of a manual trigger
ManualStop(x) ==
    /\ Kind(x) = "manual"
    /\ tr[x].pc = "idle"
    /\ SetGw(ManualStopHead(Gw, x))
    /\ UNCHANGED <<outsideVars, sched, auth, req, cfg, schedSpec, mx>>

\* the caller of start() or stop() takes the result
TrigReturn(x) ==
    /\ tr[x].pc \in {"early", "done", "rejected"}
    /\ tr' = [tr EXCEPT ![x].pc = "idle", ![x].op = "none"]
    /\ UNCHANGED <<outsideVars, routes, registeredTriggers, server, timers, sched, auth, req,
                 cfg, schedSpec, poll, mx, starts>>

WebhookStep(x) == WebhookStart(x) \/ WebhookStop(x)

PollingStep(x) == PollingStart(x) \/ PollingArmed(x) \/ PollingStop(x)

ScheduleStep(x) ==
    \/ ScheduleStart(x) \/ ScheduleClientReady(x) \/ ScheduleCreated(x)
    \/ ScheduleExists(x) \/ ScheduleUpdated(x)
    \/ ScheduleStartFails(x) \/ ScheduleStop(x)
    \/ \E gone \in BOOLEAN : ScheduleDeleted(x, gone)

ManualStep(x) == ManualStart(x) \/ ManualStop(x)

----------------------------------------------------------------------------
(* Polls of the polling trigger *)

\* the interval timer fires and calls poll()
PollTick(x) ==
    /\ timers[x]
    /\ poll[x].pc = "idle"
    /\ poll' = [poll EXCEPT ![x] = PollEntered("timer")]
    /\ UNCHANGED <<outsideVars, tr, routes, registeredTriggers, server, timers, sched, auth,
                 req, cfg, schedSpec, mx, starts>>

\* shouldTrigger(): fetch rejects; the catch logs and the function goes on
\* to its last line, `return { trigger: true }`
ProbeThrows(x) ==
    /\ poll[x].pc = "probe"
    /\ poll' = [poll EXCEPT ![x].pc = "client", ![x].probe = "threw", ![x].trigger = TRUE]
    /\ UNCHANGED <<outsideVars, tr, routes, registeredTriggers, server, timers, sched, auth,
                 req, cfg, schedSpec, mx, starts>>

\* shouldTrigger(): fetch resolves; response.json() is awaited when
\* response.ok, and the function goes on to its last line when not
ProbeAnswers(x, ok) ==
    /\ poll[x].pc = "probe"
    /\ poll' = [poll EXCEPT ![x] =
                  IF ok THEN [poll[x] EXCEPT !.pc = "json", !.probe = "ok"]
                  ELSE [poll[x] EXCEPT !.pc = "client", !.probe = "notok", !.trigger = TRUE]]
    /\ UNCHANGED <<outsideVars, tr, routes, registeredTriggers, server, timers, sched, auth,
                 req, cfg, schedSpec, mx, starts>>

\* shouldTrigger(): the body is parsed; poll() calls startWorkflow when the
\* decision is to fire and returns when not
ProbeParsed(x, d) ==
    /\ poll[x].pc = "json"
    /\ poll' = [poll EXCEPT ![x].data = d, ![x].trigger = shouldStart(d),
                            ![x].pc = IF shouldStart(d) THEN "client" ELSE "settled"]
    /\ UNCHANGED <<outsideVars, tr, routes, registeredTriggers, server, timers, sched, auth,
                 req, cfg, schedSpec, mx, starts>>

\* shouldTrigger(): response.json() rejects, which the same catch takes
ProbeParseThrows(x) ==
    /\ poll[x].pc = "json"
    /\ poll' = [poll EXCEPT ![x].pc = "client", ![x].probe = "badjson", ![x].trigger = TRUE]
    /\ UNCHANGED <<outsideVars, tr, routes, registeredTriggers, server, timers, sched, auth,
                 req, cfg, schedSpec, mx, starts>>

\* startWorkflow: the client is there, client.workflow.start is awaited
PollClientReady(x) ==
    /\ poll[x].pc = "client"
    /\ poll' = [poll EXCEPT ![x].pc = "start", ![x].starts = @ + 1]
    /\ UNCHANGED <<outsideVars, tr, routes, registeredTriggers, server, timers, sched, auth,
                 req, cfg, schedSpec, mx, starts>>

\* client.workflow.start resolves: the run is started
PollStarted(x) ==
    /\ poll[x].pc = "start"
    /\ poll' = [poll EXCEPT ![x].pc = "settled"]
    /\ UNCHANGED <<outsideVars, tr, routes, registeredTriggers, server, timers, sched, auth,
                 req, cfg, schedSpec, mx, starts>>

\* getClientForNamespace or client.workflow.start rejects: the catch of poll()
PollStartFails(x) ==
    /\ poll[x].pc \in {"client", "start"}
    /\ poll' = [poll EXCEPT ![x].pc = "settled"]
    /\ UNCHANGED <<outsideVars, tr, routes, registeredTriggers, server, timers, sched, auth,
                 req, cfg, schedSpec, mx, starts>>

\* the poll() the timer called has returned
PollReturns(x) ==
    /\ poll[x].pc = "settled" /\ poll[x].from = "timer"
    /\ poll' = [poll EXCEPT ![x] = BlankPoll]
    /\ UNCHANGED <<outsideVars, tr, routes, registeredTriggers, server, timers, sched, auth,
                 req, cfg, schedSpec, mx, starts>>

\* the first poll of start(), without a probe
FirstPollStep(x) == PollClientReady(x) \/ PollStarted(x) \/ PollStartFails(x)

ProbeStep(x) ==
    \/ ProbeThrows(x)
    \/ \E ok \in BOOLEAN : ProbeAnswers(x, ok)
    \/ \E d \in ProbeData : ProbeParsed(x, d)
    \/ ProbeParseThrows(x)

----------------------------------------------------------------------------
(* ManualTrigger.execute and executeAndWait *)

\* one call: op "execute" or "executeAndWait"; whether it started the
\* workflow; pc "idle", "client", "start", "result", "resolved", "rejected",
\* and "thrown" with the error "not running"
BlankExecute == [pc |-> "idle", op |-> "none", starts |-> 0, error |-> "none"]

\* mutant: execute() does not look at isRunning
NotRunningNever(x) == FALSE

\* `if (!this.isRunning)` at the head of execute() and executeAndWait()
NotRunning(x) == ~tr[x].running

\* execute(options) or executeAndWait(options) is called: it throws when the
\* trigger is not running, and awaits the client of the namespace when it is
ManualExecute(x, o) ==
    /\ Kind(x) = "manual"
    /\ mx.pc = "idle"
    /\ mx' = IF NotRunning(x)
             THEN [BlankExecute EXCEPT !.pc = "thrown", !.op = o, !.error = "not running"]
             ELSE [BlankExecute EXCEPT !.pc = "client", !.op = o]
    /\ UNCHANGED <<outsideVars, tr, routes, registeredTriggers, server, timers, sched, auth,
                 req, cfg, schedSpec, poll, starts>>

\* the client is there, client.workflow.start is awaited
ManualClientReady ==
    /\ mx.pc = "client"
    /\ mx' = [mx EXCEPT !.pc = "start", !.starts = @ + 1]
    /\ UNCHANGED <<outsideVars, tr, routes, registeredTriggers, server, timers, sched, auth,
                 req, cfg, schedSpec, poll, starts>>

\* client.workflow.start resolves: execute() returns the workflow id,
\* executeAndWait() awaits handle.result()
ManualStarted ==
    /\ mx.pc = "start"
    /\ mx' = [mx EXCEPT !.pc = IF mx.op = "execute" THEN "resolved" ELSE "result"]
    /\ UNCHANGED <<outsideVars, tr, routes, registeredTriggers, server, timers, sched, auth,
                 req, cfg, schedSpec, poll, starts>>

\* handle.result() settles: the run ended well, or failed
ManualResult(ok) ==
    /\ mx.pc = "result"
    /\ mx' = [mx EXCEPT !.pc = IF ok THEN "resolved" ELSE "rejected",
                        !.error = IF ok THEN "none" ELSE "workflow failed"]
    /\ UNCHANGED <<outsideVars, tr, routes, registeredTriggers, server, timers, sched, auth,
                 req, cfg, schedSpec, poll, starts>>

\* getClientForNamespace or client.workflow.start rejects
ManualFails ==
    /\ mx.pc \in {"client", "start"}
    /\ mx' = [mx EXCEPT !.pc = "rejected", !.error = "engine"]
    /\ UNCHANGED <<outsideVars, tr, routes, registeredTriggers, server, timers, sched, auth,
                 req, cfg, schedSpec, poll, starts>>

\* the caller takes the result
ManualReturns ==
    /\ mx.pc \in {"thrown", "resolved", "rejected"}
    /\ mx' = BlankExecute
    /\ UNCHANGED <<outsideVars, tr, routes, registeredTriggers, server, timers, sched, auth,
                 req, cfg, schedSpec, poll, starts>>

ExecuteStep ==
    \/ \E o \in {"execute", "executeAndWait"} : ManualExecute("m1", o)
    \/ ManualClientReady
    \/ ManualStarted
    \/ \E ok \in BOOLEAN : ManualResult(ok)
    \/ ManualFails
    \/ ManualReturns

----------------------------------------------------------------------------
(* Webhook requests *)

\* the method and path of the config of a webhook trigger: both triggers are
\* configured with the same route
RouteOf(x) == [method |-> "POST", path |-> "/hook"]

AuthSchemes == {"none", "bearer", "api-key", "basic"}

\* header names a request may carry, and the values of a header
HeaderNames == {"authorization", "Cookie", "X-Api-Key", "X-Custom"}

HeaderValues == {"good", "bad"}

HeaderMaps == UNION {[S -> HeaderValues] : S \in SUBSET HeaderNames}

NoHeaders == [n \in {} |-> "bad"]

\* mutant: the names are compared as they are
LowerUnchanged(n) == n

\* key.toLowerCase()
Lower(n) == CASE n = "Cookie" -> "cookie"
              [] n = "X-Api-Key" -> "x-api-key"
              [] n = "X-Custom" -> "x-custom"
              [] OTHER -> n

sensitiveHeaders == {"authorization", "cookie", "x-api-key"}

\* sanitizeHeaders(headers)
sanitizeHeaders(hs) ==
    [n \in {m \in DOMAIN hs : Lower(m) \notin sensitiveHeaders} |-> hs[n]]

NoResponse == [status |-> 0, success |-> FALSE, fields |-> {}]

\* res.json({success: true, workflowId, namespace, taskQueue, message})
OkResponse ==
    [status |-> 200, success |-> TRUE,
     fields |-> {"workflowId", "namespace", "taskQueue", "message"}]

\* mutant: the catch answers as the try does
ErrorResponseAsOk == OkResponse

\* res.status(500).json({success: false, error})
ErrorResponse == [status |-> 500, success |-> FALSE, fields |-> {"error"}]

\* one request to POST /webhooks/hook: the trigger whose handler runs, the
\* headers, the headers of the payload once it is built, the number of
\* client.workflow.start calls, the response; live is history: the trigger
\* was running when the request arrived
BlankRequest ==
    [pc |-> "idle", owner |-> "none", headers |-> NoHeaders, built |-> FALSE,
     payload |-> NoHeaders, starts |-> 0, res |-> NoResponse, live |-> FALSE]

\* a request arrives: the router runs the first handler of the route, which
\* calls startWorkflow and awaits the client of the namespace
RequestArrives(hs) ==
    /\ req.pc = "idle"
    /\ server = "up"
    /\ routes # <<>>
    /\ req' = [BlankRequest EXCEPT !.pc = "client", !.owner = routes[1], !.headers = hs,
                                    !.live = tr[routes[1]].running]
    /\ UNCHANGED <<outsideVars, tr, routes, registeredTriggers, server, timers, sched, auth,
                 cfg, schedSpec, poll, mx, starts>>

\* startWorkflow: the client is there, the payload is built and
\* client.workflow.start is awaited
RequestClientReady ==
    /\ req.pc = "client"
    /\ req' = [req EXCEPT !.pc = "start", !.built = TRUE,
                          !.payload = sanitizeHeaders(req.headers),
                          !.starts = req.starts + 1]
    /\ UNCHANGED <<outsideVars, tr, routes, registeredTriggers, server, timers, sched, auth,
                 cfg, schedSpec, poll, mx, starts>>

\* client.workflow.start resolves: the handler answers
RequestStarted ==
    /\ req.pc = "start"
    /\ req' = [req EXCEPT !.pc = "started", !.res = OkResponse]
    /\ UNCHANGED <<outsideVars, tr, routes, registeredTriggers, server, timers, sched, auth,
                 cfg, schedSpec, poll, mx, starts>>

\* getClientForNamespace or client.workflow.start rejects: the catch of the
\* handler answers
RequestFails ==
    /\ req.pc \in {"client", "start"}
    /\ req' = [req EXCEPT !.pc = "failed", !.res = ErrorResponse]
    /\ UNCHANGED <<outsideVars, tr, routes, registeredTriggers, server, timers, sched, auth,
                 cfg, schedSpec, poll, mx, starts>>

\* the handler has returned
RequestEnds ==
    /\ req.pc \in {"started", "failed"}
    /\ req' = BlankRequest
    /\ UNCHANGED <<outsideVars, tr, routes, registeredTriggers, server, timers, sched, auth,
                 cfg, schedSpec, poll, mx, starts>>

----------------------------------------------------------------------------
(* TriggerManager *)

Kinds == {"webhook", "polling", "schedule", "manual"}

\* the trigger config in the metadata of version v of workflow n: every
\* version of A has a config of its own, the versions of B have the same
TriggerConfig(n, v) == IF n = "A" THEN v ELSE VersionPool[1]

\* this.triggers.has(name)
Has(mk, n) == \E j \in 1..Len(mk) : mk[j].name = n

\* this.triggers.get(name)
TriggerOf(mk, n) == mk[CHOOSE j \in 1..Len(mk) : mk[j].name = n].trigger

\* Array.from(this.triggers.values())
TriggerSeq(mk) == [j \in 1..Len(mk) |-> mk[j].trigger]

Objects(mk) == Range(TriggerSeq(mk))

\* createTrigger(workflow): a new object of the class of the trigger type
NewTrigger(mk, kind) ==
    CASE kind = "webhook" -> IF "w1" \in Objects(mk) THEN "w2" ELSE "w1"
      [] kind = "polling" -> "p1"
      [] kind = "schedule" -> "s1"
      [] kind = "manual" -> "m1"

\* an object of the class is left for createTrigger to make
CanMake(mk, kind) ==
    /\ NewTrigger(mk, kind) \notin Objects(mk)
    /\ tr[NewTrigger(mk, kind)] = BlankTrigger

\* mutant: register() sets the entry whether or not the name has one
registerAlways(mk, n, kind, c) ==
    IF Has(mk, n)
    THEN [j \in 1..Len(mk) |->
            IF mk[j].name = n
            THEN [name |-> n, trigger |-> NewTrigger(mk, kind), config |-> c]
            ELSE mk[j]]
    ELSE Append(mk, [name |-> n, trigger |-> NewTrigger(mk, kind), config |-> c])

\* TriggerManager.register(workflow): the table after the call; the trigger
\* that createTrigger makes holds the config c of the workflow it was made
\* from
register(mk, n, kind, c) ==
    IF Has(mk, n) THEN mk
    ELSE Append(mk, [name |-> n, trigger |-> NewTrigger(mk, kind), config |-> c])

\* the last register() call: its workflow's name and trigger type, and the
\* trigger it returned
BlankRegister == [name |-> "none", kind |-> "none", ret |-> "none"]

\* a caller calls register(workflow)
Register(n, kind) ==
    /\ Has(made, n) \/ CanMake(made, kind)
    /\ \E v \in Versions : made' = register(made, n, kind, TriggerConfig(n, v))
    /\ triggers' = triggers \cup {n}
    /\ reg' = [name |-> n, kind |-> kind, ret |-> TriggerOf(made', n)]
    /\ UNCHANGED <<watcherVars, managerVars, indexFile, hc, tm, mainPc, clientVars, gatewayVars>>

\* the startAll() or stopAll() call: the triggers whose promises it awaits,
\* and those whose promise rejected
BlankFanOut == [pc |-> "idle", op |-> "none", awaited |-> {}, failed |-> {}]

\* the map over the triggers of startAll(): each start() runs up to its
\* first await
RECURSIVE StartedAll(_, _, _)
StartedAll(g, xs, h) ==
    IF xs = <<>> THEN g ELSE StartedAll(StartHead(g, Head(xs), h), Tail(xs), h)

\* the map over the triggers of stopAll()
RECURSIVE StoppedAll(_, _)
StoppedAll(g, xs) ==
    IF xs = <<>> THEN g ELSE StoppedAll(StopHead(g, Head(xs)), Tail(xs))

\* the calls of the map find their triggers with no call in flight, and the
\* router has room for the handlers
FanOutFits(mk) ==
    /\ \A x \in Objects(mk) : tr[x].pc = "idle"
    /\ \A x \in Objects(mk) \cap PollingIds : poll[x].pc = "idle"
    /\ Len(routes) + Cardinality({x \in Objects(mk) \cap WebhookIds : ~tr[x].running})
          <= MaxRoutes

\* TriggerManager.startAll() is called
StartAllTriggersEnter(h) ==
    /\ tm.pc = "idle"
    /\ FanOutFits(made)
    /\ SetGw(StartedAll(Gw, TriggerSeq(made), h))
    /\ tm' = [pc |-> "wait", op |-> "startAll", awaited |-> Objects(made), failed |-> {}]
    /\ UNCHANGED <<sched, auth, req, cfg, schedSpec, mx>>

\* TriggerManager.stopAll() is called
StopAllTriggersEnter ==
    /\ tm.pc = "idle"
    /\ FanOutFits(made)
    /\ SetGw(StoppedAll(Gw, TriggerSeq(made)))
    /\ tm' = [pc |-> "wait", op |-> "stopAll", awaited |-> Objects(made), failed |-> {}]
    /\ UNCHANGED <<sched, auth, req, cfg, schedSpec, mx>>

\* a caller calls startAll()
TriggersStartAll ==
    /\ StartAllTriggersEnter(FALSE)
    /\ UNCHANGED <<watcherVars, managerVars, indexFile, triggers, hc, made, reg, mainPc, clientVars>>

\* a caller calls stopAll()
TriggersStopAll ==
    /\ StopAllTriggersEnter
    /\ UNCHANGED <<watcherVars, managerVars, indexFile, triggers, hc, made, reg, mainPc, clientVars>>

\* mutant: Promise.all over the bare promises, a rejection goes through
FanOutOutcomeRaises(failed) == IF failed = {} THEN "resolved" ELSE "rejected"

\* every promise of the map has a catch that logs: Promise.all resolves
FanOutOutcome(failed) == "resolved"

\* the promises of the map have all settled: startAll() logs and resolves,
\* stopAll() clears the table and resolves
FanOutSettles ==
    /\ tm.pc = "wait"
    /\ \A x \in tm.awaited : tr[x].pc \in {"early", "done", "rejected"}
    /\ LET failed == {x \in tm.awaited : tr[x].pc = "rejected"}
       IN  tm' = [tm EXCEPT !.pc = FanOutOutcome(failed), !.failed = failed]
    /\ tr' = [x \in TrigIds |->
                IF x \in tm.awaited THEN [tr[x] EXCEPT !.pc = "idle", !.op = "none"]
                ELSE tr[x]]
    /\ made' = IF tm.op = "stopAll" THEN <<>> ELSE made
    /\ triggers' = IF tm.op = "stopAll" THEN {} ELSE triggers
    /\ UNCHANGED <<watcherVars, managerVars, indexFile, hc, reg, mainPc, clientVars, routes,
                 registeredTriggers, server, timers, sched, auth, req, cfg, schedSpec,
                 poll, mx, starts>>

\* the caller of startAll() or stopAll() takes the result
FanOutReturn ==
    /\ tm.pc \in {"resolved", "rejected"}
    /\ tm' = BlankFanOut
    /\ UNCHANGED <<watcherVars, managerVars, indexFile, triggers, hc, made, reg, mainPc, clientVars,
                 gatewayVars>>

\* listen fails (the port is taken): the server emits 'error'. When the
\* callback of listen is told (told = TRUE), it resolves startServer() as it
\* does when the server listens, and start() sets isRunning; when the event
\* has no listener, the process ends on the uncaught exception
ServerBindFails(told) ==
    /\ server = "binding"
    /\ server' = IF told THEN "failed" ELSE "crashed"
    /\ tr' = [x \in TrigIds |->
                IF told /\ Kind(x) = "webhook" /\ tr[x].op = "start" /\ tr[x].pc = "await"
                THEN [tr[x] EXCEPT !.running = TRUE, !.pc = "done"] ELSE tr[x]]
    /\ UNCHANGED <<outsideVars, routes, registeredTriggers, timers, sched, auth, req,
                 cfg, schedSpec, poll, mx, starts>>

\* the process has not ended
Alive == server # "crashed"

----------------------------------------------------------------------------
(* handleWorkflowChanges *)

\* the namespace:taskQueue key in the metadata of version v of workflow n: a
\* catalogue in which B shares the key of A, and v2 of A moves A to another
MetaKey(n, v) == IF n = "A" /\ v = "v2" THEN "k2" ELSE "k1"

\* the trigger type in the metadata of workflow n
TriggerKind(n) == IF n = "A" THEN "webhook" ELSE "schedule"

\* the RegisteredWorkflow the watcher holds for n
Def(n) == [name |-> n, key |-> MetaKey(n, tracked[n])]

Defs(ns) == [j \in 1..Len(ns) |-> Def(ns[j])]

\* the loop over added: registerWorkflow for each definition in turn
RECURSIVE RegisteredAll(_, _)
RegisteredAll(ws, ds) ==
    IF ds = <<>> THEN ws
    ELSE RegisteredAll(Registered(ws, Head(ds).name, Head(ds).key), Tail(ds))

\* the loop over added: triggerManager.register for each definition in turn
RECURSIVE RegisteredAllTriggers(_, _)
RegisteredAllTriggers(mk, ns) ==
    IF ns = <<>> THEN mk
    ELSE RegisteredAllTriggers(register(mk, Head(ns), TriggerKind(Head(ns)),
                                        TriggerConfig(Head(ns), tracked[Head(ns)])),
                               Tail(ns))

\* the last register() call of a loop over the names ns; history, kept when
\* h = TRUE
LastRegister(mk, ns, h) ==
    IF ns = <<>> \/ ~h THEN reg
    ELSE [name |-> ns[Len(ns)], kind |-> TriggerKind(ns[Len(ns)]),
          ret |-> TriggerOf(mk, ns[Len(ns)])]

\* sync() calls the handler: the index is regenerated from the tracked
\* table, every added definition is registered with the WorkerManager and the
\* TriggerManager (awaits that take no event)
HandlerBegin(s, h) ==
    /\ sync[s].pc = "handler"
    /\ hc.pc = "idle"
    /\ indexFile' = {n \in Names : tracked[n] # "none"}
    /\ workers' = RegisteredAll(workers, Defs(sync[s].added))
    /\ triggers' = triggers \cup Range(sync[s].added)
    /\ made' = RegisteredAllTriggers(made, sync[s].added)
    /\ reg' = LastRegister(made', sync[s].added, h)
    /\ hc' = [BlankHandler EXCEPT !.pc = "updated", !.slot = s,
                                   !.added = Defs(sync[s].added),
                                   !.updated = Defs(sync[s].updated),
                                   !.removed = sync[s].removed, !.j = 1]
    /\ UNCHANGED <<watcherVars, gatewayVars, tm, mainPc, clientVars, wk, connection, sa, rs, st>>

\* sync() calls the handler and triggerManager.register() throws for the
\* j-th added definition (createTrigger does not know its trigger type, or
\* the constructor of the trigger fails to parse its config): the index is
\* regenerated, the definitions up to the j-th are registered with the
\* WorkerManager, those before it with the TriggerManager, and the handler
\* rejects
HandlerRegisterThrows(s, j) ==
    /\ sync[s].pc = "handler"
    /\ hc.pc = "idle"
    /\ j \in 1..Len(sync[s].added)
    /\ LET before == SubSeq(sync[s].added, 1, j - 1)
           upTo == SubSeq(sync[s].added, 1, j)
       IN  /\ ~Has(RegisteredAllTriggers(made, before), sync[s].added[j])
           /\ indexFile' = {n \in Names : tracked[n] # "none"}
           /\ workers' = RegisteredAll(workers, Defs(upTo))
           /\ triggers' = triggers \cup Range(before)
           /\ made' = RegisteredAllTriggers(made, before)
    /\ hc' = [BlankHandler EXCEPT !.pc = "rejected", !.slot = s,
                                   !.added = Defs(sync[s].added),
                                   !.updated = Defs(sync[s].updated),
                                   !.removed = sync[s].removed, !.j = 1,
                                   !.threw = sync[s].added[j]]
    /\ UNCHANGED <<watcherVars, gatewayVars, tm, reg, mainPc, clientVars, wk, connection, sa, rs, st>>

\* the loop over updated: restartWorker(workflow.namespace, workflow.taskQueue)
HandlerRestart ==
    /\ hc.pc = "updated"
    /\ hc.j <= Len(hc.updated)
    /\ RestartEnter(hc.updated[hc.j].key) \/ RestartEnterThrows(hc.updated[hc.j].key)
    /\ hc' = [hc EXCEPT !.pc = "restart", !.restarted = @ \cup {hc.updated[hc.j].key}]
    /\ UNCHANGED <<indexFile, triggers, registryVars, gatewayVars>>

\* restartWorker() has settled: the loop goes on, or the handler rejects
HandlerRestartReturn ==
    /\ hc.pc = "restart"
    /\ rs.pc \in {"done", "rejected"}
    /\ rs' = BlankRestart
    /\ hc' = IF rs.pc = "done" THEN [hc EXCEPT !.pc = "updated", !.j = @ + 1]
             ELSE [hc EXCEPT !.pc = "rejected"]
    /\ UNCHANGED <<watcherVars, workers, wk, connection, sa, st, indexFile, triggers,
                 registryVars, gatewayVars>>

\* getRegisteredWorkflows().length === added.length with added not empty
FirstWorkflows(mk, added) == Len(added) > 0 /\ Len(mk) = Len(added)

\* after the loops (the loop over removed logs the names): when the added
\* definitions are all the TriggerManager knows, triggerManager.startAll()
\* is called; the history of the start() calls is kept when h = TRUE
HandlerLoopsDone(h) ==
    /\ hc.pc = "updated"
    /\ hc.j > Len(hc.updated)
    /\ IF FirstWorkflows(made, hc.added)
       THEN /\ StartAllTriggersEnter(h)
            /\ hc' = [hc EXCEPT !.pc = "tstart"]
       ELSE /\ hc' = [hc EXCEPT !.pc = "done"]
            /\ UNCHANGED <<tm, gatewayVars>>
    /\ UNCHANGED <<watcherVars, managerVars, indexFile, triggers, made, reg, mainPc, clientVars>>

\* triggerManager.startAll() has resolved; workerManager.startAll() is called
HandlerTriggersStarted ==
    /\ hc.pc = "tstart"
    /\ tm.pc = "resolved"
    /\ tm' = BlankFanOut
    /\ StartAllEnter(FALSE)
    /\ hc' = [hc EXCEPT !.pc = "wstart"]
    /\ UNCHANGED <<indexFile, triggers, made, reg, mainPc, clientVars, gatewayVars>>

\* workerManager.startAll() has settled
HandlerStartAllReturn ==
    /\ hc.pc = "wstart"
    /\ sa.pc \in {"done", "rejected"}
    /\ sa' = BlankStartAll
    /\ hc' = [hc EXCEPT !.pc = sa.pc]
    /\ UNCHANGED <<watcherVars, workers, wk, connection, rs, st, indexFile, triggers,
                 registryVars, gatewayVars>>

\* the handler resolves, or rejects into sync()'s catch
HandlerEnd ==
    /\ hc.pc \in {"done", "rejected"}
    /\ sync' = [sync EXCEPT ![hc.slot] =
                   SyncEnd(@, IF hc.pc = "done" THEN "done" ELSE "aborted", FALSE)]
    /\ hc' = BlankHandler
    /\ UNCHANGED <<remote, tracked, intervalHandle, startPc, stopCalled, timerAfterStop,
                 managerVars, indexFile, triggers, registryVars, gatewayVars>>

HandlerStep ==
    \/ \E s \in SyncIds : HandlerBegin(s, FALSE)
    \/ HandlerRestart
    \/ HandlerRestartReturn
    \/ HandlerLoopsDone(FALSE)
    \/ HandlerTriggersStarted
    \/ HandlerStartAllReturn
    \/ HandlerEnd

----------------------------------------------------------------------------
(* client.ts: the shared client connection and the Clients per namespace *)

Namespaces == {"n1", "n2"}

\* the callers of getClientForNamespace: the triggers that a fan-out starts
\* at once
Callers == {"c1", "c2"}

BlankGet == [pc |-> "idle", ns |-> "none", conn |-> 0]

BlankClientLog == [connects |-> 0, made |-> [ns \in Namespaces |-> 0]]

outsideClient == <<watcherVars, managerVars, indexFile, triggers, hc, gatewayVars,
                   made, tm, reg, mainPc, shutdownPc>>

\* getClientForNamespace(ns) up to its first await. A cached Client is
\* returned at once. Otherwise getConnection() is called: with no
\* sharedConnection it calls Connection.connect and awaits it; with one it
\* returns it, and the caller goes on after the await of that promise
GetEnter(c, ns) ==
    /\ gets[c].pc = "idle"
    /\ IF clients[ns] # 0
       THEN UNCHANGED gets
       ELSE IF sharedConnection = 0
            THEN gets' = [gets EXCEPT ![c] = [pc |-> "connect", ns |-> ns, conn |-> 0]]
            ELSE gets' = [gets EXCEPT ![c] = [pc |-> "have", ns |-> ns,
                                              conn |-> sharedConnection]]
    /\ UNCHANGED <<clients, sharedConnection, clientLog, closePc, outsideClient>>

\* Connection.connect resolves with a new connection: sharedConnection is
\* assigned and returned
GetConnected(c) ==
    /\ gets[c].pc = "connect"
    /\ clientLog' = [clientLog EXCEPT !.connects = @ + 1]
    /\ sharedConnection' = clientLog'.connects
    /\ gets' = [gets EXCEPT ![c].pc = "have", ![c].conn = clientLog'.connects]
    /\ UNCHANGED <<clients, closePc, outsideClient>>

\* Connection.connect rejects, and getClientForNamespace with it
GetConnectFails(c) ==
    /\ gets[c].pc = "connect"
    /\ gets' = [gets EXCEPT ![c] = BlankGet]
    /\ UNCHANGED <<clients, sharedConnection, clientLog, closePc, outsideClient>>

\* new Client({connection, namespace}); clients.set(namespace, client)
GetMake(c) ==
    /\ gets[c].pc = "have"
    /\ clientLog' = [clientLog EXCEPT !.made[gets[c].ns] = @ + 1]
    /\ clients' = [clients EXCEPT ![gets[c].ns] = clientLog'.made[gets[c].ns]]
    /\ gets' = [gets EXCEPT ![c] = BlankGet]
    /\ UNCHANGED <<sharedConnection, closePc, outsideClient>>

\* closeAllClients() up to `await sharedConnection.close()`: the cache is
\* cleared; with no sharedConnection the call is over
CloseAllEnter ==
    /\ closePc = "idle"
    /\ clients' = [ns \in Namespaces |-> 0]
    /\ clientLog' = BlankClientLog
    /\ closePc' = IF sharedConnection # 0 THEN "closing" ELSE "idle"
    /\ UNCHANGED <<sharedConnection, gets, outsideClient>>

\* close() resolves: sharedConnection = null
CloseAllClosed ==
    /\ closePc = "closing"
    /\ sharedConnection' = 0
    /\ closePc' = "idle"
    /\ UNCHANGED <<clients, gets, clientLog, outsideClient>>

----------------------------------------------------------------------------
(* index.ts: shutdown(), the handler of SIGINT and SIGTERM *)

\* the process has not exited
ProcessUp == shutdownPc \notin {"exited", "failed"}

\* the promise that shutdown() awaits has settled: shutdown() goes on before
\* any timer or I/O callback runs
ShutdownReady ==
    \/ shutdownPc = "triggers" /\ tm.pc = "resolved"
    \/ shutdownPc = "workers" /\ st.pc \in {"done", "rejected"}

\* shutdown() up to `await triggerManager.stopAll()`: the watcher is stopped
\* and every trigger is told to stop
ShutdownBegin ==
    /\ shutdownPc = "idle"
    /\ intervalHandle' = FALSE
    /\ stopCalled' = TRUE
    /\ StopAllTriggersEnter
    /\ shutdownPc' = "triggers"
    /\ UNCHANGED <<remote, tracked, startPc, timerAfterStop, sync, managerVars,
                 indexFile, triggers, hc, made, reg, mainPc,
                 clients, sharedConnection, gets, clientLog, closePc>>

\* triggerManager.stopAll() has resolved; workerManager.stopAll() is called
ShutdownTriggersStopped ==
    /\ shutdownPc = "triggers"
    /\ tm.pc = "resolved"
    /\ tm' = BlankFanOut
    /\ StopAllEnter
    /\ shutdownPc' = "workers"
    /\ UNCHANGED <<watcherVars, connection, indexFile, triggers, hc, gatewayVars,
                 made, reg, mainPc, clients, sharedConnection, gets, clientLog, closePc>>

\* the same when a shutdown() of the loop of stopAll() throws
ShutdownStopAllThrows ==
    /\ shutdownPc = "triggers"
    /\ tm.pc = "resolved"
    /\ tm' = BlankFanOut
    /\ StopAllThrowsEnter
    /\ shutdownPc' = "workers"
    /\ UNCHANGED <<watcherVars, workers, connection, sa, rs, indexFile, triggers, hc,
                 gatewayVars, made, reg, mainPc,
                 clients, sharedConnection, gets, clientLog, closePc>>

\* stopAll: connection.close() rejects because a worker still holds the
\* connection, and stopAll() with it; this.connection stays set
StopAllCloseFails ==
    /\ st.pc = "close"
    /\ \E w \in WorkerIds : Live(w)
    /\ st' = [st EXCEPT !.pc = "rejected"]
    /\ UNCHANGED <<watcherVars, reconVars, workers, wk, connection, sa, rs>>

\* workerManager.stopAll() has resolved; closeAllClients() is called. With
\* no client connection it awaits nothing and process.exit(0) follows
ShutdownWorkersStopped ==
    /\ shutdownPc = "workers"
    /\ st.pc = "done"
    /\ st' = BlankStopAll
    /\ closePc = "idle"
    /\ clients' = [ns \in Namespaces |-> 0]
    /\ clientLog' = BlankClientLog
    /\ closePc' = IF sharedConnection # 0 THEN "closing" ELSE "idle"
    /\ shutdownPc' = IF sharedConnection # 0 THEN "clients" ELSE "exited"
    /\ UNCHANGED <<watcherVars, workers, wk, connection, sa, rs, indexFile, triggers, hc,
                 gatewayVars, made, tm, reg, mainPc, sharedConnection, gets>>

\* workerManager.stopAll() has rejected: the catch logs and process.exit(1)
ShutdownWorkersFailed ==
    /\ shutdownPc = "workers"
    /\ st.pc = "rejected"
    /\ st' = BlankStopAll
    /\ shutdownPc' = "failed"
    /\ UNCHANGED <<watcherVars, workers, wk, connection, sa, rs, indexFile, triggers, hc,
                 gatewayVars, made, tm, reg, mainPc,
                 clients, sharedConnection, gets, clientLog, closePc>>

\* closeAllClients() has resolved: process.exit(0)
ShutdownClientsClosed ==
    /\ shutdownPc = "clients"
    /\ closePc = "closing"
    /\ sharedConnection' = 0
    /\ closePc' = "idle"
    /\ shutdownPc' = "exited"
    /\ UNCHANGED <<watcherVars, managerVars, indexFile, triggers, hc, gatewayVars,
                 made, tm, reg, mainPc, clients, gets, clientLog>>

ShutdownStep ==
    \/ ShutdownBegin
    \/ ShutdownTriggersStopped
    \/ ShutdownStopAllThrows
    \/ ShutdownWorkersStopped
    \/ ShutdownWorkersFailed
    \/ ShutdownClientsClosed

----------------------------------------------------------------------------
(* main *)

\* getTrackedWorkflows(): the tracked definitions
TrackedSeq == SelectSeq(NameSeq, LAMBDA n : tracked[n] # "none")

\* workflowWatcher.start() has resolved. With tracked workflows the index is
\* regenerated, each is registered with the WorkerManager and the
\* TriggerManager (awaits that take no event) and triggerManager.startAll()
\* is called; with none main() has come to its end
MainWatching ==
    /\ mainPc = "watch"
    /\ startPc = "started"
    /\ IF TrackedSeq # <<>>
       THEN /\ indexFile' = Range(TrackedSeq)
            /\ workers' = RegisteredAll(workers, Defs(TrackedSeq))
            /\ triggers' = triggers \cup Range(TrackedSeq)
            /\ made' = RegisteredAllTriggers(made, TrackedSeq)
            /\ reg' = LastRegister(made', TrackedSeq, TRUE)
            /\ StartAllTriggersEnter(TRUE)
            /\ mainPc' = "tstart"
       ELSE /\ mainPc' = "done"
            /\ UNCHANGED <<indexFile, workers, triggers, made, reg, tm, gatewayVars>>
    /\ UNCHANGED <<watcherVars, wk, connection, sa, rs, st, hc, clientVars>>

\* triggerManager.startAll() has resolved; workerManager.startAll() is called
MainTriggersStarted ==
    /\ mainPc = "tstart"
    /\ tm.pc = "resolved"
    /\ tm' = BlankFanOut
    /\ StartAllEnter(FALSE)
    /\ mainPc' = "wstart"
    /\ UNCHANGED <<indexFile, triggers, hc, made, reg, gatewayVars, clientVars>>

\* workerManager.startAll() has settled: main() has come to its end, or its
\* rejection ends the process
MainWorkersStarted ==
    /\ mainPc = "wstart"
    /\ sa.pc \in {"done", "rejected"}
    /\ sa' = BlankStartAll
    /\ mainPc' = IF sa.pc = "done" THEN "done" ELSE "fatal"
    /\ UNCHANGED <<watcherVars, workers, wk, connection, rs, st, indexFile, triggers, hc,
                 made, tm, reg, gatewayVars, clientVars>>

MainStep == MainWatching \/ MainTriggersStarted \/ MainWorkersStarted

----------------------------------------------------------------------------
(* Specifications *)

\* the steps of the start() calls of the triggers of the catalogue, when the
\* server binds and the engine answers
TriggerStartStep ==
    \/ ServerListening
    \/ ScheduleClientReady("s1")
    \/ ScheduleCreated("s1")
    \/ FanOutSettles

NoCallInFlight == sa.pc = "idle" /\ rs.pc = "idle" /\ st.pc = "idle"

\* the WorkerManager under any interleaving of its operations, for the
\* definitions A on k1 and B on k2
NextManager ==
    \/ \E n \in Names : RegisterWorkflow(n, HomeKey(n))
    \/ StartAllCall(FALSE)
    \/ \E k \in Keys : RestartCall(k) \/ RestartShutdownThrows(k)
    \/ StopAllCall
    \/ StopAllShutdownThrows
    \/ StartAllStep \/ StartAllReturn
    \/ RestartStep \/ RestartReturn
    \/ StopAllStep \/ StopAllReturn
    \/ WorkerEvent

\* the WorkerManager when a caller awaits each of startAll, restartWorker
\* and stopAll before it calls the next
NextSerial ==
    \/ \E n \in Names, k \in Keys : RegisterWorkflow(n, k)
    \/ (NoCallInFlight /\ StartAllCall(TRUE))
    \/ \E k \in Keys : NoCallInFlight /\ (RestartCall(k) \/ RestartShutdownThrows(k))
    \/ (NoCallInFlight /\ StopAllCall)
    \/ (NoCallInFlight /\ StopAllShutdownThrows)
    \/ StartAllStep \/ StartAllReturn
    \/ RestartDrained \/ RestartFails \/ RestartCreated \/ RestartReturn
    \/ StopAllStep \/ StopAllReturn
    \/ WorkerEvent

\* the state after construction, over any content of the artifact store
InitWatcher ==
    /\ remote \in [Names -> RemoteVals]
    /\ tracked = [n \in Names |-> "none"]
    /\ intervalHandle = FALSE
    /\ startPc = "idle"
    /\ stopCalled = FALSE
    /\ timerAfterStop = FALSE
    /\ sync = [s \in SyncIds |-> BlankSync]
    /\ workers = EmptyPool
    /\ wk = [w \in WorkerIds |-> BlankWorker]
    /\ connection = FALSE
    /\ sa = BlankStartAll
    /\ rs = BlankRestart
    /\ st = BlankStopAll
    /\ indexFile = {}
    /\ triggers = {}
    /\ hc = BlankHandler
    /\ tr = [x \in TrigIds |-> BlankTrigger]
    /\ routes = <<>>
    /\ registeredTriggers = 0
    /\ server = "none"
    /\ timers = [x \in PollingIds |-> FALSE]
    /\ sched = FALSE
    /\ auth = [x \in WebhookIds |-> "none"]
    /\ req = BlankRequest
    /\ cfg = [endpoint |-> FALSE, cron |-> FALSE, intervalMs |-> FALSE]
    /\ schedSpec = "none"
    /\ poll = [x \in PollingIds |-> BlankPoll]
    /\ mx = BlankExecute
    /\ starts = [x \in TrigIds |-> 0]
    /\ made = <<>>
    /\ tm = BlankFanOut
    /\ reg = BlankRegister
    /\ mainPc = "watch"
    /\ clients = [ns \in Namespaces |-> 0]
    /\ sharedConnection = 0
    /\ gets = [c \in Callers |-> BlankGet]
    /\ clientLog = BlankClientLog
    /\ closePc = "idle"
    /\ shutdownPc = "idle"

\* the watcher as the code schedules it: the timer fires at its interval
\* whether or not an earlier sync() is still in flight; the store changes
\* between cycles
NextWatcher ==
    \/ \E n \in Names, x \in RemoteVals : NoSyncInFlight /\ RemoteChange(n, x)
    \/ Start(FALSE)
    \/ StartArm
    \/ Stop
    \/ TimerFire(FALSE)
    \/ \E s \in SyncIds : SyncStep(s, FALSE)

SpecWatcher == InitWatcher /\ [][NextWatcher]_vars

\* the watcher when every cycle ends within the sync interval, with the
\* history of the cycle kept
NextCycle ==
    \/ \E n \in Names, x \in RemoteVals : RemoteChange(n, x)
    \/ Start(TRUE)
    \/ StartArm
    \/ Stop
    \/ (NoSyncInFlight /\ TimerFire(TRUE))
    \/ \E s \in SyncIds : SyncStep(s, TRUE)

SpecCycle == InitWatcher /\ [][NextCycle]_vars

\* the manager that loads ../workflows: registerWorkflow, startAll, stopAll
NextLegacy ==
    \/ \E n \in Names, k \in Keys : RegisterWorkflowLegacy(n, k)
    \/ (NoCallInFlight /\ StartAllCall(FALSE))
    \/ (NoCallInFlight /\ StopAllCall)
    \/ (NoCallInFlight /\ StopAllShutdownThrows)
    \/ StartAllStep \/ StartAllReturn
    \/ StopAllStep \/ StopAllReturn
    \/ WorkerEvent

\* the watcher with handleWorkflowChanges as its handler, one sync at a time;
\* a worker's run may come to its end, no run fails
NextRecon ==
    \/ \E n \in Names, x \in RemoteVals : NoSyncInFlight /\ RemoteChange(n, x)
    \/ Start(FALSE)
    \/ StartArm
    \/ (NoSyncInFlight /\ TimerFire(FALSE))
    \/ \E s \in SyncIds : SyncIO(s, FALSE)
    \/ HandlerStep
    \/ TriggerStartStep
    \/ StartAllStep
    \/ RestartDrained \/ RestartFails \/ RestartCreated
    \/ \E w \in WorkerIds : WorkerRunEnds(w)

SpecRecon == InitWatcher /\ [][NextRecon]_vars


\* the state after construction, the artifact store empty
InitQuiet ==
    /\ remote = [n \in Names |-> "absent"]
    /\ tracked = [n \in Names |-> "none"]
    /\ intervalHandle = FALSE
    /\ startPc = "idle"
    /\ stopCalled = FALSE
    /\ timerAfterStop = FALSE
    /\ sync = [s \in SyncIds |-> BlankSync]
    /\ workers = EmptyPool
    /\ wk = [w \in WorkerIds |-> BlankWorker]
    /\ connection = FALSE
    /\ sa = BlankStartAll
    /\ rs = BlankRestart
    /\ st = BlankStopAll
    /\ indexFile = {}
    /\ triggers = {}
    /\ hc = BlankHandler
    /\ tr = [x \in TrigIds |-> BlankTrigger]
    /\ routes = <<>>
    /\ registeredTriggers = 0
    /\ server = "none"
    /\ timers = [x \in PollingIds |-> FALSE]
    /\ sched = FALSE
    /\ auth = [x \in WebhookIds |-> "none"]
    /\ req = BlankRequest
    /\ cfg = [endpoint |-> FALSE, cron |-> FALSE, intervalMs |-> FALSE]
    /\ schedSpec = "none"
    /\ poll = [x \in PollingIds |-> BlankPoll]
    /\ mx = BlankExecute
    /\ starts = [x \in TrigIds |-> 0]
    /\ made = <<>>
    /\ tm = BlankFanOut
    /\ reg = BlankRegister
    /\ mainPc = "watch"
    /\ clients = [ns \in Namespaces |-> 0]
    /\ sharedConnection = 0
    /\ gets = [c \in Callers |-> BlankGet]
    /\ clientLog = BlankClientLog
    /\ closePc = "idle"
    /\ shutdownPc = "idle"

\* the same when versions are deployed only, and the artifact store answers
\* every request of the cycle
NextUpdate ==
    \/ \E n \in Names, x \in Versions : NoSyncInFlight /\ RemoteChange(n, x)
    \/ Start(FALSE)
    \/ StartArm
    \/ (NoSyncInFlight /\ TimerFire(FALSE))
    \/ \E s \in SyncIds : SyncListed(s, FALSE) \/ SyncLatest(s, FALSE)
                             \/ SyncMeta(s) \/ SyncBundle(s, FALSE)
    \/ HandlerStep
    \/ TriggerStartStep
    \/ StartAllStep
    \/ RestartDrained \/ RestartFails \/ RestartCreated
    \/ WorkerEvent

SpecUpdate == InitQuiet /\ [][NextUpdate]_vars

\* what the runtime does in the end: the timer fires at its interval and a
\* cycle that is awaiting the store gets its answer; a handler that can go
\* on does; a start() that is awaiting the server or the engine gets its
\* answer; a connect or Worker.create settles one way or the other; a
\* worker that was signalled ends its run
FairUpdate ==
    /\ WF_vars(Start(FALSE) \/ StartArm \/ (NoSyncInFlight /\ TimerFire(FALSE)))
    /\ WF_vars(\E s \in SyncIds : SyncListed(s, FALSE) \/ SyncLatest(s, FALSE)
                                     \/ SyncMeta(s) \/ SyncBundle(s, FALSE))
    /\ WF_vars(HandlerStep)
    /\ WF_vars(TriggerStartStep)
    /\ WF_vars(StartAllStep \/ RestartDrained \/ RestartFails \/ RestartCreated)
    /\ WF_vars(\E w \in WorkerIds : WorkerRunEnds(w))

SpecFairUpdate == InitQuiet /\ [][NextUpdate]_vars /\ FairUpdate

\* the client cache alone: callers ask for the client of a namespace while
\* earlier calls are still awaited, and closeAllClients() is called
NextClients ==
    \/ \E c \in Callers, ns \in Namespaces : GetEnter(c, ns)
    \/ \E c \in Callers : GetConnected(c)
    \/ \E c \in Callers : GetConnectFails(c)
    \/ \E c \in Callers : GetMake(c)
    \/ CloseAllEnter
    \/ CloseAllClosed

SpecClients == InitQuiet /\ [][NextClients]_vars

\* the reconciliation when a signal calls shutdown() at any time, until the
\* process exits: the store answers, one caller has asked for a client, the
\* server closes and the engine deletes the schedule when the triggers stop
NextShutdown ==
    \/ /\ ProcessUp
       /\ ~ShutdownReady
       /\ \/ \E n \in Names, x \in Versions : NoSyncInFlight /\ RemoteChange(n, x)
          \/ Start(FALSE)
          \/ StartArm
          \/ (NoSyncInFlight /\ TimerFire(FALSE))
          \/ \E s \in SyncIds : SyncListed(s, FALSE) \/ SyncLatest(s, FALSE)
                                   \/ SyncMeta(s) \/ SyncBundle(s, FALSE)
          \/ HandlerStep
          \/ TriggerStartStep
          \/ ServerClosed
          \/ ScheduleDeleted("s1", TRUE)
          \/ StartAllStep
          \/ RestartDrained \/ RestartFails \/ RestartCreated
          \/ StopAllStep \/ StopAllCloseFails
          \/ \E w \in WorkerIds : WorkerRunEnds(w)
          \/ GetEnter("c1", "n1") \/ GetConnected("c1") \/ GetMake("c1")
    \/ ShutdownStep

SpecShutdown == InitQuiet /\ [][NextShutdown]_vars

\* the same when the metadata of a deployed definition may be one that
\* triggerManager.register() throws on
NextInvalid ==
    \/ NextUpdate
    \/ \E s \in SyncIds, j \in 1..Len(NameSeq) : HandlerRegisterThrows(s, j)

SpecInvalid == InitQuiet /\ [][NextInvalid]_vars

\* the triggers, each started and stopped by a caller that awaits the call
NextTriggers ==
    \/ \E x \in TrigIds : WebhookStep(x) \/ PollingStep(x) \/ ScheduleStep(x)
                             \/ ManualStep(x) \/ TrigReturn(x)
    \/ FirstPollStep("p1")
    \/ ServerListening
    \/ ServerClosed

SpecTriggers == InitQuiet /\ [][NextTriggers]_vars

\* the state after construction, the webhook trigger w1 made from any config
InitGateway ==
    /\ remote = [n \in Names |-> "absent"]
    /\ tracked = [n \in Names |-> "none"]
    /\ intervalHandle = FALSE
    /\ startPc = "idle"
    /\ stopCalled = FALSE
    /\ timerAfterStop = FALSE
    /\ sync = [s \in SyncIds |-> BlankSync]
    /\ workers = EmptyPool
    /\ wk = [w \in WorkerIds |-> BlankWorker]
    /\ connection = FALSE
    /\ sa = BlankStartAll
    /\ rs = BlankRestart
    /\ st = BlankStopAll
    /\ indexFile = {}
    /\ triggers = {}
    /\ hc = BlankHandler
    /\ tr = [x \in TrigIds |-> BlankTrigger]
    /\ routes = <<>>
    /\ registeredTriggers = 0
    /\ server = "none"
    /\ timers = [x \in PollingIds |-> FALSE]
    /\ sched = FALSE
    /\ auth \in {f \in [WebhookIds -> AuthSchemes] : f["w2"] = "none"}
    /\ req = BlankRequest
    /\ cfg = [endpoint |-> FALSE, cron |-> FALSE, intervalMs |-> FALSE]
    /\ schedSpec = "none"
    /\ poll = [x \in PollingIds |-> BlankPoll]
    /\ mx = BlankExecute
    /\ starts = [x \in TrigIds |-> 0]
    /\ made = <<>>
    /\ tm = BlankFanOut
    /\ reg = BlankRegister
    /\ mainPc = "watch"
    /\ clients = [ns \in Namespaces |-> 0]
    /\ sharedConnection = 0
    /\ gets = [c \in Callers |-> BlankGet]
    /\ clientLog = BlankClientLog
    /\ closePc = "idle"
    /\ shutdownPc = "idle"

\* the webhook trigger w1 and the requests to its route
NextRequests ==
    \/ WebhookStep("w1")
    \/ TrigReturn("w1")
    \/ ServerListening
    \/ ServerClosed
    \/ \E hs \in HeaderMaps : RequestArrives(hs)
    \/ RequestClientReady
    \/ RequestStarted
    \/ RequestFails
    \/ RequestEnds

SpecRequests == InitGateway /\ [][NextRequests]_vars

\* two webhook triggers on the shared server, each started and stopped by a
\* caller that awaits the call, and the requests to their route
NextShared ==
    \/ \E x \in WebhookIds : WebhookStep(x) \/ TrigReturn(x)
    \/ ServerListening
    \/ ServerClosed
    \/ RequestArrives(NoHeaders)
    \/ RequestClientReady
    \/ RequestStarted
    \/ RequestFails
    \/ RequestEnds

SpecShared == InitQuiet /\ [][NextShared]_vars

\* the state after construction, the polling trigger made from a config
\* with or without an endpoint
InitPolling ==
    /\ remote = [n \in Names |-> "absent"]
    /\ tracked = [n \in Names |-> "none"]
    /\ intervalHandle = FALSE
    /\ startPc = "idle"
    /\ stopCalled = FALSE
    /\ timerAfterStop = FALSE
    /\ sync = [s \in SyncIds |-> BlankSync]
    /\ workers = EmptyPool
    /\ wk = [w \in WorkerIds |-> BlankWorker]
    /\ connection = FALSE
    /\ sa = BlankStartAll
    /\ rs = BlankRestart
    /\ st = BlankStopAll
    /\ indexFile = {}
    /\ triggers = {}
    /\ hc = BlankHandler
    /\ tr = [x \in TrigIds |-> BlankTrigger]
    /\ routes = <<>>
    /\ registeredTriggers = 0
    /\ server = "none"
    /\ timers = [x \in PollingIds |-> FALSE]
    /\ sched = FALSE
    /\ auth = [x \in WebhookIds |-> "none"]
    /\ req = BlankRequest
    /\ cfg \in [endpoint : BOOLEAN, cron : {FALSE}, intervalMs : {FALSE}]
    /\ schedSpec = "none"
    /\ poll = [x \in PollingIds |-> BlankPoll]
    /\ mx = BlankExecute
    /\ starts = [x \in TrigIds |-> 0]
    /\ made = <<>>
    /\ tm = BlankFanOut
    /\ reg = BlankRegister
    /\ mainPc = "watch"
    /\ clients = [ns \in Namespaces |-> 0]
    /\ sharedConnection = 0
    /\ gets = [c \in Callers |-> BlankGet]
    /\ clientLog = BlankClientLog
    /\ closePc = "idle"
    /\ shutdownPc = "idle"

\* the polling trigger with its polls, and the manual trigger with its
\* executions
NextPolling ==
    \/ PollingStep("p1")
    \/ TrigReturn("p1")
    \/ PollTick("p1")
    \/ ProbeStep("p1")
    \/ FirstPollStep("p1")
    \/ PollReturns("p1")
    \/ ManualStep("m1")
    \/ TrigReturn("m1")
    \/ ExecuteStep

SpecPolling == InitPolling /\ [][NextPolling]_vars

\* the polling trigger when stop() may be called while start() is in flight
NextStopInStart ==
    \/ PollingStep("p1")
    \/ PollingStopInStart("p1")
    \/ TrigReturn("p1")
    \/ PollTick("p1")
    \/ ProbeStep("p1")
    \/ FirstPollStep("p1")
    \/ PollReturns("p1")

SpecStopInStart == InitPolling /\ [][NextStopInStart]_vars

\* the specs a schedule of the engine may have
ScheduleSpecs == {"cron", "interval", "hourly"}

\* the state after construction, the schedule trigger made from any config,
\* the engine with or without a schedule of its id left by an earlier run
InitSchedule ==
    /\ remote = [n \in Names |-> "absent"]
    /\ tracked = [n \in Names |-> "none"]
    /\ intervalHandle = FALSE
    /\ startPc = "idle"
    /\ stopCalled = FALSE
    /\ timerAfterStop = FALSE
    /\ sync = [s \in SyncIds |-> BlankSync]
    /\ workers = EmptyPool
    /\ wk = [w \in WorkerIds |-> BlankWorker]
    /\ connection = FALSE
    /\ sa = BlankStartAll
    /\ rs = BlankRestart
    /\ st = BlankStopAll
    /\ indexFile = {}
    /\ triggers = {}
    /\ hc = BlankHandler
    /\ tr = [x \in TrigIds |-> BlankTrigger]
    /\ routes = <<>>
    /\ registeredTriggers = 0
    /\ server = "none"
    /\ timers = [x \in PollingIds |-> FALSE]
    /\ sched \in BOOLEAN
    /\ auth = [x \in WebhookIds |-> "none"]
    /\ req = BlankRequest
    /\ cfg \in [endpoint : {FALSE}, cron : BOOLEAN, intervalMs : BOOLEAN]
    /\ schedSpec \in (IF sched THEN ScheduleSpecs ELSE {"none"})
    /\ poll = [x \in PollingIds |-> BlankPoll]
    /\ mx = BlankExecute
    /\ starts = [x \in TrigIds |-> 0]
    /\ made = <<>>
    /\ tm = BlankFanOut
    /\ reg = BlankRegister
    /\ mainPc = "watch"
    /\ clients = [ns \in Namespaces |-> 0]
    /\ sharedConnection = 0
    /\ gets = [c \in Callers |-> BlankGet]
    /\ clientLog = BlankClientLog
    /\ closePc = "idle"
    /\ shutdownPc = "idle"

\* the schedule trigger
NextSchedule ==
    \/ ScheduleStep("s1")
    \/ TrigReturn("s1")

SpecSchedule == InitSchedule /\ [][NextSchedule]_vars

\* the TriggerManager: workflows of any trigger type are registered, and a
\* caller awaits each startAll() and stopAll() before it calls the next; the
\* server may fail to bind, the engine may reject
NextRegistry ==
    \/ \E n \in Names, kind \in Kinds : Alive /\ Register(n, kind)
    \/ (Alive /\ TriggersStartAll)
    \/ (Alive /\ TriggersStopAll)
    \/ (Alive /\ FanOutSettles)
    \/ (Alive /\ FanOutReturn)
    \/ (Alive /\ ServerListening)
    \/ \E told \in BOOLEAN : Alive /\ ServerBindFails(told)
    \/ (Alive /\ ServerClosed)
    \/ (Alive /\ (ScheduleClientReady("s1") \/ ScheduleCreated("s1") \/ ScheduleExists("s1")
                    \/ ScheduleUpdated("s1") \/ ScheduleStartFails("s1")))
    \/ \E gone \in BOOLEAN : Alive /\ ScheduleDeleted("s1", gone)
    \/ (Alive /\ (FirstPollStep("p1") \/ PollingArmed("p1")))

SpecRegistry == InitQuiet /\ [][NextRegistry]_vars

\* the state after construction, a version of every workflow deployed
InitStartup ==
    /\ remote \in [Names -> Versions]
    /\ tracked = [n \in Names |-> "none"]
    /\ intervalHandle = FALSE
    /\ startPc = "idle"
    /\ stopCalled = FALSE
    /\ timerAfterStop = FALSE
    /\ sync = [s \in SyncIds |-> BlankSync]
    /\ workers = EmptyPool
    /\ wk = [w \in WorkerIds |-> BlankWorker]
    /\ connection = FALSE
    /\ sa = BlankStartAll
    /\ rs = BlankRestart
    /\ st = BlankStopAll
    /\ indexFile = {}
    /\ triggers = {}
    /\ hc = BlankHandler
    /\ tr = [x \in TrigIds |-> BlankTrigger]
    /\ routes = <<>>
    /\ registeredTriggers = 0
    /\ server = "none"
    /\ timers = [x \in PollingIds |-> FALSE]
    /\ sched = FALSE
    /\ auth = [x \in WebhookIds |-> "none"]
    /\ req = BlankRequest
    /\ cfg = [endpoint |-> FALSE, cron |-> FALSE, intervalMs |-> FALSE]
    /\ schedSpec = "none"
    /\ poll = [x \in PollingIds |-> BlankPoll]
    /\ mx = BlankExecute
    /\ starts = [x \in TrigIds |-> 0]
    /\ made = <<>>
    /\ tm = BlankFanOut
    /\ reg = BlankRegister
    /\ mainPc = "watch"
    /\ clients = [ns \in Namespaces |-> 0]
    /\ sharedConnection = 0
    /\ gets = [c \in Callers |-> BlankGet]
    /\ clientLog = BlankClientLog
    /\ closePc = "idle"
    /\ shutdownPc = "idle"

\* the startup of the process: main() awaits the start() of the watcher,
\* whose first sync notifies handleWorkflowChanges, and then registers and
\* starts what is tracked; the store does not change and answers every
\* request, the server binds, the engine answers and no run of a worker ends
NextStartup ==
    \/ Start(FALSE)
    \/ StartArm
    \/ (mainPc # "watch" /\ NoSyncInFlight /\ TimerFire(FALSE))
    \/ \E s \in SyncIds : SyncListed(s, FALSE) \/ SyncLatest(s, FALSE)
                             \/ SyncMeta(s) \/ SyncBundle(s, FALSE)
    \/ \E s \in SyncIds : HandlerBegin(s, TRUE)
    \/ HandlerLoopsDone(TRUE)
    \/ HandlerTriggersStarted
    \/ HandlerStartAllReturn
    \/ HandlerEnd
    \/ TriggerStartStep
    \/ StartAllConnected
    \/ StartAllCreated
    \/ MainStep

SpecStartup == InitStartup /\ [][NextStartup]_vars

SpecManager == InitQuiet /\ [][NextManager]_vars

SpecLegacy == InitQuiet /\ [][NextLegacy]_vars

SpecSerial == InitQuiet /\ [][NextSerial]_vars


----------------------------------------------------------------------------
(* Properties of a sync cycle *)

NoDuplicates(q) == Cardinality(Range(q)) = Len(q)

\* the cycle has reached its notification: its three lists are final
Notified(r) == r.pc \in {"handler", "done"}

\* every listed name had a latest pointer and no download failed
AllFetched(r) ==
    /\ r.failed = {}
    /\ \A n \in Range(r.deployed) : r.seen[n] \in Versions

\* C1: in a cycle in which every listed name has a latest pointer and every
\* download succeeds, added is the listed names that were not tracked, removed
\* the tracked names that are not listed, updated the names in both whose
\* tracked version differs from the latest version read; the lists are
\* pairwise disjoint and the table ends as listed name -> latest version.
C1_DiffCorrect ==
    \A s \in SyncIds :
        LET r == sync[s]
            L == Range(r.deployed)
        IN  (Notified(r) /\ AllFetched(r)) =>
              /\ Range(r.added) = {n \in L : r.t0[n] = "none"}
              /\ Range(r.removed) = {n \in Names \ L : r.t0[n] # "none"}
              /\ Range(r.updated) = {n \in L : r.t0[n] \notin {"none", r.seen[n]}}
              /\ NoDuplicates(r.added) /\ NoDuplicates(r.updated) /\ NoDuplicates(r.removed)
              /\ Range(r.added) \cap Range(r.updated) = {}
              /\ Range(r.added) \cap Range(r.removed) = {}
              /\ Range(r.updated) \cap Range(r.removed) = {}
              /\ tracked = [n \in Names |-> IF n \in L THEN r.seen[n] ELSE "none"]

\* a cycle of that kind that reports an update and a removal
C1_Witness ==
    \E s \in SyncIds :
        /\ Notified(sync[s]) /\ AllFetched(sync[s])
        /\ sync[s].updated # <<>>
        /\ sync[s].removed # <<>>

C3_NotifiedIffChanged ==
    \A s \in SyncIds :
        LET r == sync[s]
        IN  r.pc \in {"done", "aborted"} =>
              /\ r.calls <= 1
              /\ (r.calls = 1) <=>
                    (r.added # <<>> \/ r.updated # <<>> \/ r.removed # <<>>)

\* C4: at most one sync() is in flight at any time.
C4_OneCycleAtATime == Cardinality({s \in SyncIds : InFlight(s)}) <= 1

\* C5: once stop() has been called the timer starts no sync cycle.
C5_NoTimerSyncAfterStop == ~timerAfterStop

----------------------------------------------------------------------------
(* Properties of the WorkerManager *)

LiveOn(k) == {w \in WorkerIds : Live(w) /\ wk[w].key = k}

\* C6: under every interleaving of registerWorkflow, startAll, restartWorker
\* and stopAll there is at most one live worker per key, and every live
\* worker is the one its group's handle refers to.
C6_OneLiveWorkerPerKey ==
    /\ \A k \in Keys : Cardinality(LiveOn(k)) <= 1
    /\ \A w \in WorkerIds :
          Live(w) => /\ HasGroup(workers, wk[w].key)
                     /\ workers.g[wk[w].key].worker = w

\* C9: however often definitions are registered, a name is in the workflow
\* list of its group exactly once.
C9_RegisteredOnce ==
    \A k \in Range(workers.order) : NoDuplicates(workers.g[k].workflows)

AllMaterialized ==
    \A k \in Range(workers.order) :
        /\ workers.g[k].worker # 0
        /\ workers.g[k].run = workers.g[k].worker
        /\ wk[workers.g[k].worker].state # "free"
        /\ wk[workers.g[k].worker].key = k

\* C10: when startAll() resolves every group of the pool has a worker whose
\* run was started, and a group that had a worker at the call still has that
\* worker, also when the run of a worker has failed meanwhile.
C10_StartAllMaterializes ==
    [][(sa.pc # "done" /\ sa'.pc = "done") =>
          /\ AllMaterialized'
          /\ \A k \in Keys : sa'.h0[k] # 0 => workers'.g[k].worker = sa'.h0[k]]_vars

\* startAll() has resolved after it made a worker for one group and kept the
\* worker of another, whose run has failed
C10_Witness ==
    /\ sa.pc = "done"
    /\ AllMaterialized
    /\ \E k1, k2 \in Range(workers.order) :
          /\ sa.h0[k1] # 0
          /\ wk[sa.h0[k1]].state = "stopped"
          /\ sa.h0[k2] = 0

Group(n) == {k \in Range(workers.order) : n \in Range(workers.g[k].workflows)}

\* C7: after a notification every group with a worker is served by that one
\* worker, and the worker was built with every name of the group, also with a
\* name registered after the worker was made.
C7_GroupServedByItsWorker ==
    hc.pc = "done" =>
        \A k \in Range(workers.order) :
            workers.g[k].worker # 0 =>
                /\ LiveOn(k) \subseteq {workers.g[k].worker}
                /\ Range(workers.g[k].workflows) \subseteq wk[workers.g[k].worker].built

\* C8: after the reconciliation of an updated definition that was registered
\* before, its name is in the group of the key the new version names, and in
\* no other group.
C8_UpdatedMovesToNewKey ==
    hc.pc = "done" =>
        \A j \in 1..Len(hc.updated) :
            hc.updated[j].name \in triggers =>
                Group(hc.updated[j].name) = {hc.updated[j].key}

----------------------------------------------------------------------------
(* Properties of restartWorker, stopAll and the connection *)

\* C11: restartWorker changes nothing when the key has no group or no
\* worker; else it signals the old worker, and the replacement is created
\* only when no worker of the key is live, so that a key never has two live
\* workers.
C11_RestartReplacesAfterRunEnds ==
    [][/\ (rs.pc = "idle" /\ rs'.pc = "done") => (workers' = workers /\ wk' = wk)
       /\ (rs.pc = "idle" /\ rs'.pc = "drain") => wk'[rs'.old].state = "draining"
       /\ (rs.pc = "create" /\ rs'.pc = "done") => LiveOn(rs.key) = {}
       /\ \A k \in Keys : Cardinality(LiveOn(k)') <= 1]_vars

\* restartWorker() has resolved with a replacement in the group, the old
\* worker gone
C11_Witness ==
    /\ rs.pc = "done"
    /\ workers.g[rs.key].worker # 0
    /\ wk[workers.g[rs.key].worker].state = "running"
    /\ LiveOn(rs.key) = {workers.g[rs.key].worker}

UpdatedKeys(h) == {h.updated[j].key : j \in 1..Len(h.updated)}

\* C12: while the reconciler handles a notification that has updated
\* definitions only, each restartWorker it awaits is for the key of the
\* updated definition in turn, and the worker handle, the run handle and the
\* workflow list of every group of another key stay as they are.
C12_RestartsOnlyTheUpdatedGroup ==
    [][(hc'.pc # "idle" /\ hc'.added = <<>> /\ hc'.updated # <<>>) =>
          /\ \A k \in Keys \ UpdatedKeys(hc') : workers'.g[k] = workers.g[k]
          /\ workers'.order = workers.order
          /\ rs'.pc # "idle" => rs'.key = hc'.updated[hc'.j].key]_vars

\* the reconciler has restarted the group of the updated B, whose version
\* alone changed, while another group has its worker
C12_Witness ==
    /\ hc.pc = "restart"
    /\ hc.added = <<>>
    /\ Len(hc.updated) = 1
    /\ Group(hc.updated[1].name) = {hc.updated[1].key}
    /\ rs.pc = "done"
    /\ workers.g[rs.key].worker # 0
    /\ wk[workers.g[rs.key].worker].state = "running"
    /\ \E k \in Range(workers.order) : k # rs.key /\ workers.g[k].worker # 0

C14_OneConnection ==
    [][((sa.pc = "connect" /\ sa'.pc \in {"create", "done"})
          \/ (rs.pc = "connect" /\ rs'.pc = "create")) => ~connection]_vars

----------------------------------------------------------------------------
(* Properties of the triggers and of the webhook server *)

NoOpCall(x) ==
    /\ tr[x].pc = "idle"
    /\ tr'[x].pc # "idle"
    /\ \/ tr'[x].op = "start" /\ tr[x].running
       \/ tr'[x].op = "stop" /\ ~tr[x].running

\* C15: start() on a running trigger and stop() on an idle trigger, of any
\* of the four variants, return at once: no error, the running flag as it
\* was, and no route, count, server, timer or schedule changed.
C15_StartStopIdempotent ==
    [][\A x \in TrigIds :
          NoOpCall(x) =>
              /\ tr'[x].pc = "early"
              /\ tr'[x].running = tr[x].running
              /\ UNCHANGED <<routes, registeredTriggers, server, timers, sched>>]_vars

\* start() has returned at its head for a running trigger of each variant,
\* and stop() for the idle webhook trigger w2
C15_Witness ==
    /\ \A x \in TrigIds \ {"w2"} :
          tr[x].pc = "early" /\ tr[x].op = "start" /\ tr[x].running
    /\ tr["w2"].pc = "early" /\ tr["w2"].op = "stop" /\ ~tr["w2"].running

Authenticated(hs, scheme) ==
    CASE scheme = "none" -> TRUE
      [] scheme \in {"bearer", "basic"} ->
            \E n \in DOMAIN hs : Lower(n) = "authorization" /\ hs[n] = "good"
      [] scheme = "api-key" ->
            \E n \in DOMAIN hs : Lower(n) = "x-api-key" /\ hs[n] = "good"

\* C16: no workflow-start call is made for a request that lacks the right
\* credentials of the auth scheme its route is configured with.
C16_AuthBeforeStart ==
    req.starts > 0 => Authenticated(req.headers, auth[req.owner])

\* C17: the router never holds handlers of two workflows for one method and
\* path.
C17_OneOwnerPerRoute ==
    \A i, j \in 1..Len(routes) :
        RouteOf(routes[i]) = RouteOf(routes[j]) => routes[i] = routes[j]

\* C18: the headers of the payload are the headers of the request without
\* those whose lower-cased name is authorization, cookie or x-api-key, the
\* others with the name and the value they came with.
C18_SensitiveHeadersStripped ==
    req.built =>
        /\ DOMAIN req.payload =
              {n \in DOMAIN req.headers :
                  n \notin {"authorization", "Cookie", "X-Api-Key"}}
        /\ \A n \in DOMAIN req.payload : req.payload[n] = req.headers[n]

\* the payload of a request that came with all four headers to a route with
\* an auth scheme
C18_Witness ==
    /\ req.built
    /\ DOMAIN req.headers = HeaderNames
    /\ DOMAIN req.payload = {"X-Custom"}
    /\ auth[req.owner] # "none"

RunningWebhooks == {x \in WebhookIds : tr[x].running}

\* C19: when no start() or stop() is in flight the count is the number of
\* running webhook triggers, and while a webhook trigger is running the
\* server is there and is not being closed.
C19_ServerRefCounted ==
    /\ (\A x \in WebhookIds : tr[x].pc = "idle") =>
            registeredTriggers = Cardinality(RunningWebhooks)
    /\ RunningWebhooks # {} => server \in {"binding", "up"}

\* C20: a request makes at most one workflow-start call, and one when the
\* client is there; the answer is 200 with success and the ids when the start
\* resolved, and 500 with an error when it did not.
C20_OneStartOneAnswer ==
    /\ req.starts <= 1
    /\ req.pc \in {"start", "started"} => req.starts = 1
    /\ req.pc = "started" =>
          /\ req.res.status = 200 /\ req.res.success
          /\ {"workflowId", "namespace", "taskQueue"} \subseteq req.res.fields
    /\ req.pc = "failed" =>
          /\ req.res.status = 500 /\ ~req.res.success
          /\ "error" \in req.res.fields
    /\ req.pc \in {"idle", "client", "start"} => req.res = NoResponse

\* a request has been answered 500 after its workflow-start call rejected
C20_Witness ==
    /\ req.pc = "failed"
    /\ req.starts = 1
    /\ req.res.status = 500

\* C21: a poll whose probe failed (fetch threw, or the response was not a
\* success) does not fire: the decision is not to trigger and no
\* workflow-start call is made.
C21_ProbeFailureDoesNotFire ==
    \A x \in PollingIds :
        poll[x].probe \in {"threw", "notok"} => ~poll[x].trigger /\ poll[x].starts = 0

\* the answer is an array with an element or an object with a key
NonEmptyCollection(d) == d.type \in {"array", "object"} /\ d.size > 0

\* C22: a poll without a probe endpoint fires; a poll whose probe answered
\* with success fires exactly when the answer is a non-empty array or an
\* object with a key, and a poll that does not fire starts nothing.
C22_FiresIffProbeHasData ==
    \A x \in PollingIds :
        poll[x].pc \in {"client", "start", "settled"} =>
            /\ cfg.endpoint = FALSE => poll[x].trigger
            /\ poll[x].probe = "ok" => (poll[x].trigger <=> NonEmptyCollection(poll[x].data))
            /\ ~poll[x].trigger => poll[x].starts = 0

\* C23: execute() and executeAndWait() called on a manual trigger that is
\* not running throw "not running" and start nothing; called on a running
\* one they go on to the client, make at most one workflow-start call, and
\* have made exactly one when the start is awaited or has resolved.
C23_ExecuteOnlyWhileRunning ==
    /\ [](/\ mx.pc = "thrown" => mx.error = "not running" /\ mx.starts = 0
          /\ mx.pc = "client" => mx.starts = 0
          /\ mx.pc \in {"start", "result", "resolved"} => mx.starts = 1
          /\ mx.starts <= 1)
    /\ [][mx.pc = "idle" /\ mx'.pc # "idle" =>
            mx'.pc = (IF tr["m1"].running THEN "client" ELSE "thrown")]_vars

\* execute() has thrown on the manual trigger after its stop()
C23_Witness ==
    /\ mx.pc = "thrown" /\ mx.op = "execute"
    /\ tr["m1"].op = "stop" /\ tr["m1"].pc = "done"

\* C24: a start() of the schedule trigger that has found the schedule to
\* exist awaits the update with the trigger not running yet; a start() that
\* has resolved leaves the trigger running and the schedule of the engine
\* with the spec of the trigger's config; a start() that has rejected leaves
\* the trigger not running.
C24_ExistingScheduleUpdated ==
    \A x \in TrigIds :
        Kind(x) = "schedule" /\ tr[x].op = "start" =>
            /\ tr[x].pc = "update" => sched /\ ~tr[x].running
            /\ tr[x].pc = "done" =>
                  tr[x].running /\ sched /\ schedSpec = buildScheduleSpec(cfg)
            /\ tr[x].pc = "rejected" => ~tr[x].running

\* start() has found a schedule with another spec than its own and awaits
\* the update
C24_Witness ==
    /\ tr["s1"].op = "start" /\ tr["s1"].pc = "update"
    /\ schedSpec # buildScheduleSpec(cfg)

\* C25: the table has one entry a name, and a register() call for a name
\* that has an entry returns the trigger of that entry and changes neither
\* the table nor any trigger, whatever trigger type the call names.
C25_RegisterIsIdempotent ==
    /\ [](\A i, j \in 1..Len(made) : made[i].name = made[j].name => i = j)
    /\ [][reg' # reg /\ Has(made, reg'.name) =>
            /\ made' = made
            /\ reg'.ret = TriggerOf(made, reg'.name)
            /\ tr' = tr]_vars

\* register() has returned the existing trigger to a call that names another
\* trigger type than the trigger has
C25_Witness ==
    /\ reg.ret # "none"
    /\ Has(made, reg.name) /\ TriggerOf(made, reg.name) = reg.ret
    /\ Kind(reg.ret) # reg.kind

\* C26: startAll() and stopAll() call start() or stop() on every trigger
\* they await, and do not reject; when startAll() resolves, the triggers
\* whose start() rejected are not running and all others are, and when
\* stopAll() resolves none is running.
C26_FanOutIsolatesFailures ==
    /\ tm.pc # "rejected"
    /\ tm.pc = "wait" =>
          \A x \in tm.awaited :
              tr[x].op = (IF tm.op = "startAll" THEN "start" ELSE "stop")
    /\ tm.pc = "resolved" /\ tm.op = "startAll" =>
          \A x \in tm.awaited : tr[x].running <=> x \notin tm.failed
    /\ tm.pc = "resolved" /\ tm.op = "stopAll" =>
          \A x \in tm.awaited : ~tr[x].running

\* startAll() has resolved with a trigger whose start() rejected and a
\* trigger that runs
C26_Witness ==
    /\ tm.pc = "resolved" /\ tm.op = "startAll"
    /\ tm.failed # {}
    /\ \E x \in tm.awaited \ tm.failed : tr[x].running

\* C27: a startAll() of the TriggerManager during which a resource failed
\* does not resolve: no start() of it rejected on the engine, and the server
\* of its running webhook triggers has bound.
C27_ResourceFailurePropagates ==
    tm.pc = "resolved" /\ tm.op = "startAll" =>
        /\ tm.failed = {}
        /\ \A x \in tm.awaited \cap WebhookIds : tr[x].running => server = "up"

\* the workers Worker.create has made for key k
MadeFor(k) == {w \in WorkerIds : wk[w].state # "free" /\ wk[w].key = k}

\* workflow n has a running trigger, whose start() went past its head once,
\* and is on the list of the group of its key, which has one running worker,
\* the only one made for the key
StartedOnce(n) ==
    LET k == MetaKey(n, tracked[n])
    IN  /\ Has(made, n)
        /\ tr[TriggerOf(made, n)].running
        /\ starts[TriggerOf(made, n)] = 1
        /\ n \in Range(workers.g[k].workflows)
        /\ workers.g[k].worker # 0
        /\ wk[workers.g[k].worker].state = "running"
        /\ MadeFor(k) = {workers.g[k].worker}

\* C28: with A and B deployed and nothing tracked, the notification of the
\* first sync has added = [A, B] and nothing updated or removed; when main()
\* has come to its end, A and B each have a running trigger that was
\* started once and a running worker for their group that was made once.
C28_StartupStartsEachOnce ==
    /\ startPc = "initial" /\ hc.pc # "idle" =>
          /\ [j \in 1..Len(hc.added) |-> hc.added[j].name] = NameSeq
          /\ hc.updated = <<>>
          /\ hc.removed = <<>>
    /\ mainPc = "done" => \A n \in Names : StartedOnce(n)

\* main() has come to its end with A and B in two groups
C28_Witness ==
    /\ mainPc = "done"
    /\ tm.pc = "idle" /\ sa.pc = "idle"
    /\ Len(workers.order) = 2
    /\ \A n \in Names : StartedOnce(n)

\* C29: when handleWorkflowChanges comes to its end, every definition it
\* was given as added has a trigger in the registry that is running, is on
\* the list of the group of its key, and that group has a worker.
C29_AddedEndsStarted ==
    hc.pc = "done" =>
        \A j \in 1..Len(hc.added) :
            LET n == hc.added[j].name
                k == hc.added[j].key
            IN  /\ Has(made, n)
                /\ tr[TriggerOf(made, n)].running
                /\ n \in Range(workers.g[k].workflows)
                /\ workers.g[k].worker # 0

\* C30: when handleWorkflowChanges comes to its end, no name it was given
\* as removed has a trigger in the registry, and no group of the pool lists it.
C30_RemovedIsDeregistered ==
    hc.pc = "done" =>
        \A n \in Range(hc.removed) : ~Has(made, n) /\ Group(n) = {}

\* C31: when triggerManager.register() throws for one added definition of a
\* notification, the handler still comes to its end with every other added
\* definition registered with the TriggerManager and on the list of its
\* worker group, and with restartWorker() called for every updated one.
C31_SiblingsStillReconciled ==
    (hc.pc \in {"done", "rejected"} /\ hc.threw # "none") =>
        /\ \A j \in 1..Len(hc.added) :
              hc.added[j].name # hc.threw =>
                 /\ Has(made, hc.added[j].name)
                 /\ hc.added[j].name \in Range(workers.g[hc.added[j].key].workflows)
        /\ \A j \in 1..Len(hc.updated) : hc.updated[j].key \in hc.restarted

\* C32: a polling trigger that is not running and has no start() or stop()
\* call in flight has no armed interval timer, so that no poll is started
\* for it any more.
C32_TimerOnlyWhileRunning ==
    \A x \in PollingIds :
        (tr[x].pc = "idle" /\ ~tr[x].running) => ~timers[x]

\* C33: when no start() or stop() call of a webhook trigger is in flight,
\* every running webhook trigger has the shared server listening and its
\* handler on the router.
C33_RunningIsServed ==
    (\A x \in WebhookIds : tr[x].pc = "idle") =>
        \A x \in RunningWebhooks : server = "up" /\ x \in Range(routes)

\* C34: a request starts a workflow run only through the handler of a
\* trigger that was running when the request arrived, and no trigger has
\* more than one handler on the router.
C34_StoppedRouteIsDead ==
    /\ req.starts > 0 => req.live
    /\ \A x \in WebhookIds :
          Cardinality({i \in 1..Len(routes) : routes[i] = x}) <= 1

\* C35: a step in which listDeployedWorkflows() fails (it gives [] although
\* names are deployed, or its stream rejects) leaves the tracked table as it
\* is, reports no name as removed and does not call the handler.
C35_ListFailureRemovesNothing ==
    [][\A s \in SyncIds :
          (SyncListEmpty(s, TRUE) \/ (sync[s].pc = "list" /\ SyncStreamError(s, TRUE))) =>
             /\ tracked' = tracked
             /\ sync'[s].removed = <<>>
             /\ sync'[s].pc # "handler"
             /\ sync'[s].calls = sync[s].calls]_vars

\* C36: a group whose restart failed after its old worker was shut down (the
\* handler rejected and the group is left without a worker) has a worker
\* again at some later time.
C36_LostWorkerComesBack ==
    \A k \in Keys :
        (/\ hc.pc = "rejected"
         /\ k \in hc.restarted
         /\ HasGroup(workers, k)
         /\ workers.g[k].worker = 0) ~> (workers.g[k].worker # 0)

\* C37: when the stopAll() of shutdown() has resolved and no reconciliation,
\* startAll() or restartWorker() is in flight any more, no worker is live
\* and the WorkerManager holds no connection.
C37_ShutdownLeavesNothing ==
    (/\ shutdownPc = "clients"
     /\ NoSyncInFlight
     /\ startPc # "initial"
     /\ hc.pc = "idle"
     /\ tm.pc = "idle"
     /\ sa.pc = "idle"
     /\ rs.pc = "idle") =>
        /\ \A w \in WorkerIds : ~Live(w)
        /\ ~connection

\* the config the trigger registered for n was made from
ConfigOf(mk, n) == mk[CHOOSE j \in 1..Len(mk) : mk[j].name = n].config

\* C38: when a reconciliation has completed, every tracked name has a
\* registered trigger of the type and with the config of the definition
\* that is tracked for it.
C38_TriggerFollowsDefinition ==
    hc.pc = "done" =>
        \A n \in Names :
            tracked[n] # "none" =>
                /\ Has(made, n)
                /\ Kind(TriggerOf(made, n)) = TriggerKind(n)
                /\ ConfigOf(made, n) = TriggerConfig(n, tracked[n])

\* C39: between two closeAllClients() calls at most one client connection is
\* opened and at most one Client is made for each namespace, also when
\* several callers ask for a client at once.
C39_OneConnectionOneClient ==
    /\ clientLog.connects <= 1
    /\ \A ns \in Namespaces : clientLog.made[ns] <= 1

====
